---- MODULE Spec2Model ----
(***************************************************************************)
(* NanoClaw host orchestration core: the per-channel GroupQueue            *)
(* (group-queue.ts) and the supervisor of index.ts (intake, poll loop,     *)
(* per-channel message processor, startup recovery).                       *)
(*                                                                         *)
(* Node.js runs one handler at a time: every action below is one           *)
(* macrotask (or one promise continuation) run to its next await.          *)
(***************************************************************************)
EXTENDS Integers, Sequences, FiniteSets, Bags, TLC

(* ------------------------------ bounds --------------------------------- *)
NumChannels == 3
NumTasks == 1
MaxTs == 2
MaxFailures == 1
MaxFiles == 2
MaxMarkers == 2

Channels == 1..NumChannels
TaskIds == 1..NumTasks

(* Every scheduled task belongs to one channel (tasks.channel_id): tasks   *)
(* 1 and 2 to channel 1, tasks 3 and 4 to channel 2, ...                   *)
TaskChannel(taskId) == ((((taskId + 1) \div 2) - 1) % NumChannels) + 1

(* ------------------------- program constants --------------------------- *)
MAX_CONCURRENT_CONTAINERS == 2
MAX_RETRIES == 5
BASE_RETRY_MS == 5000
ASSISTANT_NAME == "nano"
MAIN_GROUP_FOLDER == "main"

(* requiresTrigger is an optional boolean: "true", "false" or "undefined". *)
NoGroup == [folder |-> "", requiresTrigger |-> "undefined"]

VARIABLES
  groups, activeCount, waitingGroups, shuttingDown, processMessagesFn,
  jobs, timers,
  lastTimestamp, lastAgentTimestamp, registeredGroups,
  messages, router_state,
  fetching, clock, pollPc, pollMessages, phase,
  tasks, ipcFiles, ipcErrors, sent, snapshots, nextFile,
  procs, shutdownPc, activeProcs,
  startedWhileActive, included, lastFailed, failedInARow, failuresLeft,
  agent, processEnv, children,
  attach, sessions

supervisorVars == <<groups, activeCount, waitingGroups, shuttingDown, processMessagesFn,
          jobs, timers, lastTimestamp, lastAgentTimestamp, registeredGroups,
          messages, router_state, fetching, clock, pollPc, pollMessages, phase,
          tasks, ipcFiles, ipcErrors, sent, snapshots, nextFile,
          procs, shutdownPc, activeProcs,
          startedWhileActive, included, lastFailed, failedInARow,
          failuresLeft>>

(* The host process: the supervisor and attachments.ts. *)
hostVars == <<supervisorVars, attach, sessions>>

(* The agent process inside a container: the position and data of main(), *)
(* the environment it was started with, and the child processes its tools  *)
(* spawned.                                                                *)
agentVars == <<agent, processEnv, children>>

vars == <<hostVars, agentVars>>

(* The whole program state as one record, so that a handler's calls can be *)
(* composed in program order inside one action.  The fields invoked, ended *)
(* and enqCalls are the log of the handler run that starts here: how often *)
(* the processor was invoked per channel, which job ended and how, and     *)
(* which enqueueMessageCheck calls the poll loop and the recovery made.    *)
World ==
  [groups |-> groups, activeCount |-> activeCount,
   waitingGroups |-> waitingGroups, shuttingDown |-> shuttingDown,
   processMessagesFn |-> processMessagesFn, jobs |-> jobs, timers |-> timers,
   lastTimestamp |-> lastTimestamp, lastAgentTimestamp |-> lastAgentTimestamp,
   registeredGroups |-> registeredGroups, messages |-> messages,
   router_state |-> router_state,
   tasks |-> tasks, ipcFiles |-> ipcFiles, ipcErrors |-> ipcErrors,
   sent |-> sent, snapshots |-> snapshots, nextFile |-> nextFile,
   procs |-> procs, shutdownPc |-> shutdownPc, activeProcs |-> activeProcs,
   invoked |-> [c \in Channels |-> 0], ended |-> <<>>,
   startedWhileActive |-> startedWhileActive, enqCalls |-> {},
   included |-> included, lastFailed |-> lastFailed,
   failedInARow |-> failedInARow]

Commit(w) ==
  /\ groups' = w.groups
  /\ activeCount' = w.activeCount
  /\ waitingGroups' = w.waitingGroups
  /\ shuttingDown' = w.shuttingDown
  /\ processMessagesFn' = w.processMessagesFn
  /\ jobs' = w.jobs
  /\ timers' = w.timers
  /\ lastTimestamp' = w.lastTimestamp
  /\ lastAgentTimestamp' = w.lastAgentTimestamp
  /\ registeredGroups' = w.registeredGroups
  /\ messages' = w.messages
  /\ router_state' = w.router_state
  /\ tasks' = w.tasks
  /\ ipcFiles' = w.ipcFiles
  /\ ipcErrors' = w.ipcErrors
  /\ sent' = w.sent
  /\ snapshots' = w.snapshots
  /\ nextFile' = w.nextFile
  /\ procs' = w.procs
  /\ shutdownPc' = w.shutdownPc
  /\ activeProcs' = w.activeProcs
  /\ startedWhileActive' = w.startedWhileActive
  /\ included' = w.included
  /\ lastFailed' = w.lastFailed
  /\ failedInARow' = w.failedInARow
  /\ UNCHANGED <<agentVars, attach, sessions>>

(* ------------------------------ helpers -------------------------------- *)
Min2(a, b) == IF a < b THEN a ELSE b

MaxOf(S) == CHOOSE x \in S : \A y \in S : y <= x

SeqToSet(s) == {s[i] : i \in 1..Len(s)}

Includes(s, x) == \E i \in 1..Len(s) : s[i] = x

RECURSIVE SortAsc(_)
SortAsc(S) ==
  IF S = {} THEN <<>>
  ELSE LET m == CHOOSE x \in S : \A y \in S : x <= y
       IN <<m>> \o SortAsc(S \ {m})

(* ------------------------- GroupQueue state ---------------------------- *)
(* A container name is a sequence of characters; this one stands for null. *)
NullName == <<"null">>

GroupInit ==
  [active |-> FALSE, pendingMessages |-> FALSE, pendingTasks |-> <<>>,
   process |-> "null", containerName |-> NullName, retryCount |-> 0]

(* A ChildProcess: exitCode is null while it is "running"; killed is the   *)
(* flag Node sets when proc.kill delivered a signal; signals is what was   *)
(* sent to it or to its container.                                         *)
NoProc == [live |-> "none", killed |-> FALSE, signals |-> {}]

JobsOf(w, c) == {j \in w.jobs : j.channelId = c}

NewJob(w, c, kind, taskId, ph, batch) ==
  [channelId |-> c, kind |-> kind, taskId |-> taskId,
   slot |-> Cardinality(JobsOf(w, c)), phase |-> ph, batch |-> batch]

(* ----------------------------- the store ------------------------------- *)
TRIGGER_PATTERN_test(content) == content = "hey nano"

getMessagesSince(w, c, since) ==
  LET rows == {m \in w.messages : /\ m.channel_id = c
                                  /\ m.timestamp > since
                                  /\ m.sender_name # ASSISTANT_NAME}
  IN SortAsc({m.timestamp : m \in rows})

MessageAt(w, c, ts) ==
  CHOOSE m \in w.messages : m.channel_id = c /\ m.timestamp = ts

getNewMessages(w, channelIds, since) ==
  LET rows == {m \in w.messages : /\ m.channel_id \in channelIds
                                  /\ m.timestamp > since
                                  /\ m.sender_name # ASSISTANT_NAME}
  IN [messages |-> {[channel_id |-> m.channel_id, timestamp |-> m.timestamp] : m \in rows},
      newTimestamp |-> IF rows = {} THEN since
                       ELSE MaxOf({m.timestamp : m \in rows})]

saveState(w) ==
  [w EXCEPT !.router_state =
     [last_timestamp |-> w.lastTimestamp,
      last_agent_timestamp |-> w.lastAgentTimestamp]]

RegisteredIds(w) == {c \in Channels : w.registeredGroups[c] # NoGroup}

(* -------------------- processGroupMessages (index.ts) ------------------ *)
(* The synchronous prefix: everything up to the first await.  The result   *)
(* is the position the processor is left in and the batch it holds.        *)
processGroupMessagesStart_GateOnlyWhenTrue(w, c) ==
  LET group == w.registeredGroups[c]
      isMainGroup == group.folder = MAIN_GROUP_FOLDER
      sinceTimestamp == w.lastAgentTimestamp[c]
      missedMessages == getMessagesSince(w, c, sinceTimestamp)
      hasTrigger == \E i \in 1..Len(missedMessages) :
                      LET m == MessageAt(w, c, missedMessages[i])
                      IN m.mentions_bot \/ TRIGGER_PATTERN_test(m.content)
  IN IF group = NoGroup THEN [phase |-> "returned", batch |-> <<>>]
     ELSE IF Len(missedMessages) = 0 THEN [phase |-> "returned", batch |-> <<>>]
     ELSE IF group.requiresTrigger = "true" /\ ~isMainGroup /\ ~hasTrigger
          THEN [phase |-> "returned", batch |-> <<>>]
     ELSE [phase |-> "agent", batch |-> missedMessages]

processGroupMessagesStart(w, c) ==
  LET group == w.registeredGroups[c]
      isMainGroup == group.folder = MAIN_GROUP_FOLDER
      sinceTimestamp == w.lastAgentTimestamp[c]
      missedMessages == getMessagesSince(w, c, sinceTimestamp)
      hasTrigger == \E i \in 1..Len(missedMessages) :
                      LET m == MessageAt(w, c, missedMessages[i])
                      IN m.mentions_bot \/ TRIGGER_PATTERN_test(m.content)
  IN IF group = NoGroup THEN [phase |-> "returned", batch |-> <<>>]
     ELSE IF Len(missedMessages) = 0 THEN [phase |-> "returned", batch |-> <<>>]
     ELSE IF group.requiresTrigger # "false" /\ ~isMainGroup /\ ~hasTrigger
          THEN [phase |-> "returned", batch |-> <<>>]
     ELSE [phase |-> "agent", batch |-> missedMessages]

(* --------------------------- group-queue.ts ---------------------------- *)
runForGroup_KeepsPending(w, c) ==
  LET p == IF w.processMessagesFn = "processGroupMessages"
           THEN processGroupMessagesStart(w, c)
           ELSE [phase |-> "injected", batch |-> <<>>]
  IN [w EXCEPT !.groups[c].active = TRUE,
               !.activeCount = @ + 1,
               !.jobs = @ \cup {NewJob(w, c, "messages", 0, p.phase, p.batch)},
               !.invoked[c] = @ + 1,
               !.startedWhileActive = @ \/ w.groups[c].active]

(* runForGroup up to its await: mark the channel active, clear the         *)
(* coalesced flag, take a slot and call the injected processor, which runs *)
(* to its own first await.                                                 *)
runForGroup(w, c) ==
  LET p == IF w.processMessagesFn = "processGroupMessages"
           THEN processGroupMessagesStart(w, c)
           ELSE [phase |-> "injected", batch |-> <<>>]
  IN [w EXCEPT !.groups[c].active = TRUE,
               !.groups[c].pendingMessages = FALSE,
               !.activeCount = @ + 1,
               !.jobs = @ \cup {NewJob(w, c, "messages", 0, p.phase, p.batch)},
               !.invoked[c] = @ + 1,
               !.startedWhileActive = @ \/ w.groups[c].active]

(* runTask up to its await on task.fn(). *)
runTask(w, c, taskId) ==
  [w EXCEPT !.groups[c].active = TRUE,
            !.activeCount = @ + 1,
            !.jobs = @ \cup {NewJob(w, c, "task", taskId, "task", <<>>)},
            !.startedWhileActive = @ \/ w.groups[c].active]

scheduleRetry_LinearBackoff(w, c) ==
  LET rc == w.groups[c].retryCount + 1
  IN IF rc > MAX_RETRIES
     THEN [w EXCEPT !.groups[c].retryCount = 0]
     ELSE LET delayMs == BASE_RETRY_MS * rc
          IN [w EXCEPT !.groups[c].retryCount = rc,
                       !.timers[c] = @ (+) SetToBag({delayMs})]

scheduleRetry_DropsAtMax(w, c) ==
  LET rc == w.groups[c].retryCount + 1
  IN IF rc >= MAX_RETRIES
     THEN [w EXCEPT !.groups[c].retryCount = 0]
     ELSE LET delayMs == BASE_RETRY_MS * 2^(rc - 1)
          IN [w EXCEPT !.groups[c].retryCount = rc,
                       !.timers[c] = @ (+) SetToBag({delayMs})]

scheduleRetry(w, c) ==
  LET rc == w.groups[c].retryCount + 1
  IN IF rc > MAX_RETRIES
     THEN [w EXCEPT !.groups[c].retryCount = 0]
     ELSE LET delayMs == BASE_RETRY_MS * 2^(rc - 1)
          IN [w EXCEPT !.groups[c].retryCount = rc,
                       !.timers[c] = @ (+) SetToBag({delayMs})]

RECURSIVE drainWaiting(_)
drainWaiting(w) ==
  IF Len(w.waitingGroups) > 0 /\ w.activeCount < MAX_CONCURRENT_CONTAINERS
  THEN LET nextChannelId == Head(w.waitingGroups)
           w1 == [w EXCEPT !.waitingGroups = Tail(@)]
           state == w1.groups[nextChannelId]
       IN IF Len(state.pendingTasks) > 0
          THEN drainWaiting(
                 runTask([w1 EXCEPT !.groups[nextChannelId].pendingTasks = Tail(@)],
                         nextChannelId, Head(state.pendingTasks)))
          ELSE IF state.pendingMessages
          THEN drainWaiting(runForGroup(w1, nextChannelId))
          ELSE drainWaiting(w1)
  ELSE w

drainGroup_NoShutdownCheck(w, c) ==
  LET state == w.groups[c]
  IN IF Len(state.pendingTasks) > 0
     THEN runTask([w EXCEPT !.groups[c].pendingTasks = Tail(@)],
                  c, Head(state.pendingTasks))
     ELSE IF state.pendingMessages THEN runForGroup(w, c)
     ELSE drainWaiting(w)

drainGroup_MessagesFirst(w, c) ==
  LET state == w.groups[c]
  IN IF w.shuttingDown THEN w
     ELSE IF state.pendingMessages THEN runForGroup(w, c)
     ELSE IF Len(state.pendingTasks) > 0
     THEN runTask([w EXCEPT !.groups[c].pendingTasks = Tail(@)],
                  c, Head(state.pendingTasks))
     ELSE drainWaiting(w)

drainGroup_NoDrainWaiting(w, c) ==
  LET state == w.groups[c]
  IN IF w.shuttingDown THEN w
     ELSE IF Len(state.pendingTasks) > 0
     THEN runTask([w EXCEPT !.groups[c].pendingTasks = Tail(@)],
                  c, Head(state.pendingTasks))
     ELSE IF state.pendingMessages THEN runForGroup(w, c)
     ELSE w

drainGroup(w, c) ==
  LET state == w.groups[c]
  IN IF w.shuttingDown THEN w
     ELSE IF Len(state.pendingTasks) > 0
     THEN runTask([w EXCEPT !.groups[c].pendingTasks = Tail(@)],
                  c, Head(state.pendingTasks))
     ELSE IF state.pendingMessages THEN runForGroup(w, c)
     ELSE drainWaiting(w)

finallyBlock_NoDecrement(w, job, how) ==
  LET c == job.channelId
  IN drainGroup([w EXCEPT !.groups[c].active = FALSE,
                          !.groups[c].process = "null",
                          !.groups[c].containerName = NullName,
                          !.jobs = @ \ {job},
                          !.ended = <<[channelId |-> c, how |-> how]>>], c)

(* The finally block shared by runForGroup and runTask. *)
finallyBlock(w, job, how) ==
  LET c == job.channelId
  IN drainGroup([w EXCEPT !.groups[c].active = FALSE,
                          !.groups[c].process = "null",
                          !.groups[c].containerName = NullName,
                          !.activeCount = @ - 1,
                          !.jobs = @ \ {job},
                          !.ended = <<[channelId |-> c, how |-> how]>>], c)

(* runForGroup after the processor settled: "true", "false" or "throw". *)
runForGroupSettle(w, job, outcome) ==
  LET c == job.channelId
  IN IF outcome = "true"
     THEN finallyBlock([w EXCEPT !.groups[c].retryCount = 0,
                                 !.failedInARow[c] = 0], job, "success")
     ELSE finallyBlock(scheduleRetry([w EXCEPT !.failedInARow[c] = @ + 1], c),
                       job, "failure")

(* runTask after task.fn() settled (a throw is only logged). *)
runTaskSettle(w, job) == finallyBlock(w, job, "task")

enqueueMessageCheck_NoActiveCheck(w, c) ==
  LET state == w.groups[c]
  IN IF w.shuttingDown THEN w
     ELSE IF w.activeCount >= MAX_CONCURRENT_CONTAINERS
     THEN [w EXCEPT !.groups[c].pendingMessages = TRUE,
                    !.waitingGroups = IF Includes(@, c) THEN @ ELSE Append(@, c)]
     ELSE runForGroup(w, c)

enqueueMessageCheck_NoCapCheck(w, c) ==
  LET state == w.groups[c]
  IN IF w.shuttingDown THEN w
     ELSE IF state.active
     THEN [w EXCEPT !.groups[c].pendingMessages = TRUE]
     ELSE runForGroup(w, c)

enqueueMessageCheck_NoWaiter(w, c) ==
  LET state == w.groups[c]
  IN IF w.shuttingDown THEN w
     ELSE IF state.active
     THEN [w EXCEPT !.groups[c].pendingMessages = TRUE]
     ELSE IF w.activeCount >= MAX_CONCURRENT_CONTAINERS
     THEN [w EXCEPT !.groups[c].pendingMessages = TRUE]
     ELSE runForGroup(w, c)

enqueueMessageCheck(w, c) ==
  LET state == w.groups[c]
  IN IF w.shuttingDown THEN w
     ELSE IF state.active
     THEN [w EXCEPT !.groups[c].pendingMessages = TRUE]
     ELSE IF w.activeCount >= MAX_CONCURRENT_CONTAINERS
     THEN [w EXCEPT !.groups[c].pendingMessages = TRUE,
                    !.waitingGroups = IF Includes(@, c) THEN @ ELSE Append(@, c)]
     ELSE runForGroup(w, c)

enqueueTask_NoActiveCheck(w, c, taskId) ==
  LET state == w.groups[c]
  IN IF w.shuttingDown THEN w
     ELSE IF Includes(state.pendingTasks, taskId) THEN w
     ELSE IF w.activeCount >= MAX_CONCURRENT_CONTAINERS
     THEN [w EXCEPT !.groups[c].pendingTasks = Append(@, taskId),
                    !.waitingGroups = IF Includes(@, c) THEN @ ELSE Append(@, c)]
     ELSE runTask(w, c, taskId)

enqueueTask_NoIncludes(w, c, taskId) ==
  LET state == w.groups[c]
  IN IF w.shuttingDown THEN w
     ELSE IF Includes(state.pendingTasks, taskId) THEN w
     ELSE IF state.active
     THEN [w EXCEPT !.groups[c].pendingTasks = Append(@, taskId)]
     ELSE IF w.activeCount >= MAX_CONCURRENT_CONTAINERS
     THEN [w EXCEPT !.groups[c].pendingTasks = Append(@, taskId),
                    !.waitingGroups = Append(@, c)]
     ELSE runTask(w, c, taskId)

enqueueTask_NoDedup(w, c, taskId) ==
  LET state == w.groups[c]
  IN IF w.shuttingDown THEN w
     ELSE IF state.active
     THEN [w EXCEPT !.groups[c].pendingTasks = Append(@, taskId)]
     ELSE IF w.activeCount >= MAX_CONCURRENT_CONTAINERS
     THEN [w EXCEPT !.groups[c].pendingTasks = Append(@, taskId),
                    !.waitingGroups = IF Includes(@, c) THEN @ ELSE Append(@, c)]
     ELSE runTask(w, c, taskId)

enqueueTask(w, c, taskId) ==
  LET state == w.groups[c]
  IN IF w.shuttingDown THEN w
     ELSE IF Includes(state.pendingTasks, taskId) THEN w
     ELSE IF state.active
     THEN [w EXCEPT !.groups[c].pendingTasks = Append(@, taskId)]
     ELSE IF w.activeCount >= MAX_CONCURRENT_CONTAINERS
     THEN [w EXCEPT !.groups[c].pendingTasks = Append(@, taskId),
                    !.waitingGroups = IF Includes(@, c) THEN @ ELSE Append(@, c)]
     ELSE runTask(w, c, taskId)

(* The callback of the timer set by scheduleRetry. *)
retryTimer(w, c, delayMs) ==
  LET w1 == [w EXCEPT !.timers[c] = @ (-) SetToBag({delayMs})]
  IN IF ~w.shuttingDown THEN enqueueMessageCheck(w1, c) ELSE w1

registerProcess(w, c, containerName) ==
  [w EXCEPT !.groups[c].process = "proc",
            !.groups[c].containerName = containerName]

(* child_process.spawn by the runner, which then calls onProcess. *)
spawn(w, c) == [w EXCEPT !.procs[c] = [NoProc EXCEPT !.live = "running"]]

(* proc.kill(signal): delivers the signal and sets killed when the process *)
(* is still there.                                                         *)
kill(w, c, signal) ==
  IF w.procs[c].live = "running"
  THEN [w EXCEPT !.procs[c].killed = TRUE, !.procs[c].signals = @ \cup {signal}]
  ELSE w

SafeChars == {"n", "1", "-"}
safeName(containerName) == SelectSeq(containerName, LAMBDA ch : ch \in SafeChars)

(* exec(`container stop ${safeName}`) *)
containerStop(w, c, name) ==
  IF w.procs[c].live = "running" /\ name # <<>>
  THEN [w EXCEPT !.procs[c].signals = @ \cup {"container stop"}]
  ELSE w

Truthy(containerName) == containerName \notin {NullName, <<>>}

RECURSIVE stopAll(_, _)
stopAll(w, channels) ==
  IF channels = {} THEN w
  ELSE LET c == CHOOSE x \in channels : TRUE
           containerName == w.groups[c].containerName
       IN stopAll(IF Truthy(containerName)
                  THEN containerStop(w, c, safeName(containerName))
                  ELSE kill(w, c, "SIGTERM"),
                  channels \ {c})

Alive(w) ==
  {c \in w.activeProcs : ~w.procs[c].killed /\ w.procs[c].live = "running"}

shutdown(w) ==
  LET collected == {c \in Channels :
                      w.groups[c].process # "null" /\ ~w.procs[c].killed}
      w1 == [w EXCEPT !.shuttingDown = TRUE]
  IN IF collected = {} THEN [w1 EXCEPT !.shutdownPc = "returned"]
     ELSE stopAll([w1 EXCEPT !.activeProcs = collected,
                             !.shutdownPc = "waiting"], collected)

(* The 500 ms check of the grace period. *)
checkInterval(w) ==
  IF Alive(w) = {} THEN [w EXCEPT !.shutdownPc = "resolved"] ELSE w

RECURSIVE killAll(_, _)
killAll(w, channels) ==
  IF channels = {} THEN w
  ELSE LET c == CHOOSE x \in channels : TRUE
       IN killAll(kill(w, c, "SIGKILL"), channels \ {c})

(* The timeout at the end of the grace period. *)
graceTimeout(w) == [killAll(w, Alive(w)) EXCEPT !.shutdownPc = "expired"]

(* ------------- processGroupMessages after runAgent returned ------------ *)
processGroupMessagesResume_AdvancesOnError(w, job, response) ==
  LET c == job.channelId
      batch == job.batch
      w1 == saveState([w EXCEPT !.lastAgentTimestamp[c] = batch[Len(batch)]])
  IN IF response = "error"
     THEN runForGroupSettle([w1 EXCEPT !.lastFailed[c] = batch], job, "false")
     ELSE LET w2 == [w1 EXCEPT !.lastFailed[c] = <<>>,
                               !.included = [t \in DOMAIN @ |->
                                  IF Includes(batch, t) THEN Min2(@[t] + 1, 2)
                                  ELSE @[t]]]
          IN IF response = "message"
             THEN [w2 EXCEPT !.jobs = (@ \ {job}) \cup {[job EXCEPT !.phase = "sending"]}]
             ELSE runForGroupSettle(w2, job, "true")

processGroupMessagesResume_SendsEmpty(w, job, response) ==
  LET c == job.channelId
      batch == job.batch
  IN IF response = "error"
     THEN runForGroupSettle([w EXCEPT !.lastFailed[c] = batch], job, "false")
     ELSE LET w1 == saveState(
                      [w EXCEPT !.lastAgentTimestamp[c] = batch[Len(batch)],
                                !.lastFailed[c] = <<>>,
                                !.included = [t \in DOMAIN @ |->
                                   IF Includes(batch, t) THEN Min2(@[t] + 1, 2)
                                   ELSE @[t]]])
          IN IF response \in {"message", "messageEmpty"}
             THEN [w1 EXCEPT !.jobs = (@ \ {job}) \cup {[job EXCEPT !.phase = "sending"]}]
             ELSE runForGroupSettle(w1, job, "true")

(* processGroupMessages after runAgent returned.  A job in phase "sending" *)
(* is the awaited sendMessage(channelId, `${ASSISTANT_NAME}: ...`).         *)
processGroupMessagesResume(w, job, response) ==
  LET c == job.channelId
      batch == job.batch
  IN IF response = "error"
     THEN runForGroupSettle([w EXCEPT !.lastFailed[c] = batch], job, "false")
     ELSE LET w1 == saveState(
                      [w EXCEPT !.lastAgentTimestamp[c] = batch[Len(batch)],
                                !.lastFailed[c] = <<>>,
                                !.included = [t \in DOMAIN @ |->
                                   IF Includes(batch, t) THEN Min2(@[t] + 1, 2)
                                   ELSE @[t]]])
          IN IF response = "message"
             THEN [w1 EXCEPT !.jobs = (@ \ {job}) \cup {[job EXCEPT !.phase = "sending"]}]
             ELSE runForGroupSettle(w1, job, "true")

(* ----------------------------- poll loop ------------------------------- *)
pollRead_NoSave(w) ==
  LET r == getNewMessages(w, RegisteredIds(w), w.lastTimestamp)
  IN IF r.messages # {}
     THEN [found |-> r.messages,
           w |-> [w EXCEPT !.lastTimestamp = r.newTimestamp]]
     ELSE [found |-> {}, w |-> w]

(* One iteration of startMessageLoop up to the enqueue loop: read, advance *)
(* the cursor, persist.                                                    *)
pollRead(w) ==
  LET r == getNewMessages(w, RegisteredIds(w), w.lastTimestamp)
  IN IF r.messages # {}
     THEN [found |-> r.messages,
           w |-> saveState([w EXCEPT !.lastTimestamp = r.newTimestamp])]
     ELSE [found |-> {}, w |-> w]

RECURSIVE enqueueAll(_, _)
enqueueAll(w, cs) ==
  IF cs = {} THEN w
  ELSE LET c == CHOOSE x \in cs : \A y \in cs : x <= y
       IN enqueueAll(enqueueMessageCheck([w EXCEPT !.enqCalls = @ \cup {<<c, "poll">>}], c),
                     cs \ {c})

pollDispatch(w, found) == enqueueAll(w, {m.channel_id : m \in found})

RECURSIVE recoverLoop_UsesLastTimestamp(_, _)
recoverLoop_UsesLastTimestamp(w, cs) ==
  IF cs = {} THEN w
  ELSE LET c == CHOOSE x \in cs : \A y \in cs : x <= y
           sinceTimestamp == w.lastTimestamp
           pending == getMessagesSince(w, c, sinceTimestamp)
       IN recoverLoop_UsesLastTimestamp(
            IF Len(pending) > 0
            THEN enqueueMessageCheck([w EXCEPT !.enqCalls = @ \cup {<<c, "recover">>}], c)
            ELSE w,
            cs \ {c})

RECURSIVE recoverLoop(_, _)
recoverLoop(w, cs) ==
  IF cs = {} THEN w
  ELSE LET c == CHOOSE x \in cs : \A y \in cs : x <= y
           sinceTimestamp == w.lastAgentTimestamp[c]
           pending == getMessagesSince(w, c, sinceTimestamp)
       IN recoverLoop(IF Len(pending) > 0
                      THEN enqueueMessageCheck([w EXCEPT !.enqCalls = @ \cup {<<c, "recover">>}], c)
                      ELSE w,
                      cs \ {c})

recoverPendingMessages(w) == recoverLoop(w, RegisteredIds(w))

loadState(w) ==
  [w EXCEPT !.lastTimestamp = w.router_state.last_timestamp,
            !.lastAgentTimestamp = w.router_state.last_agent_timestamp]

(* ------------------------------- IPC ----------------------------------- *)
(* A string that is parsed is a sequence of characters.                    *)
Digits == <<"0", "1", "2", "3", "4", "5", "6", "7", "8", "9">>
IsDigit(ch) == \E i \in 1..Len(Digits) : Digits[i] = ch
DigitValue(ch) == (CHOOSE i \in 1..Len(Digits) : Digits[i] = ch) - 1

RECURSIVE SkipSpaces(_)
SkipSpaces(str) ==
  IF Len(str) > 0 /\ Head(str) = " " THEN SkipSpaces(Tail(str)) ELSE str

RECURSIVE LeadingDigits(_)
LeadingDigits(str) ==
  IF Len(str) > 0 /\ IsDigit(Head(str))
  THEN <<Head(str)>> \o LeadingDigits(Tail(str))
  ELSE <<>>

RECURSIVE DecimalValue(_, _)
DecimalValue(digits, acc) ==
  IF Len(digits) = 0 THEN acc
  ELSE DecimalValue(Tail(digits), 10 * acc + DigitValue(Head(digits)))

(* parseInt(str, 10): leading white space, an optional sign, then the      *)
(* longest run of digits; what follows the digits is ignored; NaN when     *)
(* there is no digit.                                                      *)
parseInt(str) ==
  LET s1 == SkipSpaces(str)
      negative == Len(s1) > 0 /\ Head(s1) = "-"
      s2 == IF Len(s1) > 0 /\ Head(s1) \in {"-", "+"} THEN Tail(s1) ELSE s1
      digits == LeadingDigits(s2)
  IN IF Len(digits) = 0 THEN [isNaN |-> TRUE, value |-> 0]
     ELSE [isNaN |-> FALSE,
           value |-> IF negative THEN 0 - DecimalValue(digits, 0)
                     ELSE DecimalValue(digits, 0)]

(* Schedule values the model uses, with what the cron parser and the Date  *)
(* constructor make of them.                                               *)
EveryMinute == <<"*", " ", "*", " ", "*", " ", "*", " ", "*">>
Year2030 == <<"2", "0", "3", "0">>
CronExpressionParser_parse_throws(str) == str # EveryMinute
Date_isNaN(str) == str # Year2030

NoTask == [id |-> 0, group_folder |-> "", channel_id |-> 0, status |-> "",
           schedule_type |-> "", schedule_value |-> <<>>, next_run |-> ""]

getTaskById(w, taskId) ==
  IF \E t \in w.tasks : t.id = taskId
  THEN CHOOSE t \in w.tasks : t.id = taskId
  ELSE NoTask

createTask(w, task) == [w EXCEPT !.tasks = @ \cup {task}]

updateTask(w, taskId, status) ==
  [w EXCEPT !.tasks = {IF t.id = taskId THEN [t EXCEPT !.status = status] ELSE t : t \in @}]

deleteTask(w, taskId) == [w EXCEPT !.tasks = {t \in @ : t.id # taskId}]

RegisteredGroup(w, channelId) ==
  IF channelId \in Channels THEN w.registeredGroups[channelId] ELSE NoGroup

(* The payload of an IPC file.  An absent field is "", 0 or <<>>.          *)
NoData ==
  [type |-> "", taskId |-> 0, prompt |-> "", schedule_type |-> "",
   schedule_value |-> <<>>, targetChannelId |-> 0, channelId |-> 0,
   text |-> "", name |-> "", folder |-> "", trigger |-> "",
   groupFolder |-> "", isMain |-> FALSE, createdBy |-> ""]

Malformed == [NoData EXCEPT !.type = "<malformed>"]
(* A file that is still being written holds a prefix of the JSON text. *)
JSON_parse_throws(file) == ~file.complete \/ file.content = Malformed

(* The id of a new task is fresh. *)
NewTaskId(w) == IF w.tasks = {} THEN 1 ELSE MaxOf({t.id : t \in w.tasks}) + 1

scheduleTaskIpc_NoFolderCheck(w, data, sourceGroup, isMain) ==
  LET targetChannelId == data.targetChannelId
      targetGroupEntry == RegisteredGroup(w, targetChannelId)
      targetFolder == targetGroupEntry.folder
      scheduleType == data.schedule_type
      ms == parseInt(data.schedule_value)
      rejected ==
        \/ scheduleType = "cron" /\ CronExpressionParser_parse_throws(data.schedule_value)
        \/ scheduleType = "interval" /\ (ms.isNaN \/ ms.value <= 0)
        \/ scheduleType = "once" /\ Date_isNaN(data.schedule_value)
      nextRun == IF scheduleType \in {"cron", "interval", "once"} THEN "set" ELSE "null"
  IN IF ~(data.prompt # "" /\ data.schedule_type # "" /\ data.schedule_value # <<>>
          /\ data.targetChannelId # 0)
     THEN w
     ELSE IF targetGroupEntry = NoGroup THEN w
     ELSE IF rejected THEN w
     ELSE createTask(w, [id |-> NewTaskId(w), group_folder |-> targetFolder,
                         channel_id |-> targetChannelId, status |-> "active",
                         schedule_type |-> scheduleType,
                         schedule_value |-> data.schedule_value,
                         next_run |-> nextRun])

scheduleTaskIpc(w, data, sourceGroup, isMain) ==
  LET targetChannelId == data.targetChannelId
      targetGroupEntry == RegisteredGroup(w, targetChannelId)
      targetFolder == targetGroupEntry.folder
      scheduleType == data.schedule_type
      ms == parseInt(data.schedule_value)
      rejected ==
        \/ scheduleType = "cron" /\ CronExpressionParser_parse_throws(data.schedule_value)
        \/ scheduleType = "interval" /\ (ms.isNaN \/ ms.value <= 0)
        \/ scheduleType = "once" /\ Date_isNaN(data.schedule_value)
      nextRun == IF scheduleType \in {"cron", "interval", "once"} THEN "set" ELSE "null"
  IN IF ~(data.prompt # "" /\ data.schedule_type # "" /\ data.schedule_value # <<>>
          /\ data.targetChannelId # 0)
     THEN w
     ELSE IF targetGroupEntry = NoGroup THEN w
     ELSE IF ~isMain /\ targetFolder # sourceGroup THEN w
     ELSE IF rejected THEN w
     ELSE createTask(w, [id |-> NewTaskId(w), group_folder |-> targetFolder,
                         channel_id |-> targetChannelId, status |-> "active",
                         schedule_type |-> scheduleType,
                         schedule_value |-> data.schedule_value,
                         next_run |-> nextRun])

processTaskIpc_TrustsPayload(w, data, sourceGroup, isMain) ==
  LET task == getTaskById(w, data.taskId)
      allowed == task # NoTask /\ (isMain \/ data.isMain \/ task.group_folder = sourceGroup)
  IN CASE data.type = "schedule_task" -> scheduleTaskIpc(w, data, sourceGroup, isMain)
       [] data.type = "pause_task" ->
            IF data.taskId # 0 /\ allowed THEN updateTask(w, data.taskId, "paused") ELSE w
       [] data.type = "resume_task" ->
            IF data.taskId # 0 /\ allowed THEN updateTask(w, data.taskId, "active") ELSE w
       [] data.type = "cancel_task" ->
            IF data.taskId # 0 /\ allowed THEN deleteTask(w, data.taskId) ELSE w
       [] data.type = "refresh_groups" ->
            IF isMain THEN [w EXCEPT !.snapshots = @ \cup {sourceGroup}] ELSE w
       [] data.type = "register_channel" ->
            IF ~isMain THEN w
            ELSE IF data.channelId # 0 /\ data.name # "" /\ data.folder # ""
                    /\ data.trigger # ""
            THEN [w EXCEPT !.registeredGroups[data.channelId] =
                     [folder |-> data.folder, requiresTrigger |-> "undefined"]]
            ELSE w
       [] OTHER -> w

processTaskIpc(w, data, sourceGroup, isMain) ==
  LET task == getTaskById(w, data.taskId)
      allowed == task # NoTask /\ (isMain \/ task.group_folder = sourceGroup)
  IN CASE data.type = "schedule_task" -> scheduleTaskIpc(w, data, sourceGroup, isMain)
       [] data.type = "pause_task" ->
            IF data.taskId # 0 /\ allowed THEN updateTask(w, data.taskId, "paused") ELSE w
       [] data.type = "resume_task" ->
            IF data.taskId # 0 /\ allowed THEN updateTask(w, data.taskId, "active") ELSE w
       [] data.type = "cancel_task" ->
            IF data.taskId # 0 /\ allowed THEN deleteTask(w, data.taskId) ELSE w
       [] data.type = "refresh_groups" ->
            IF isMain THEN [w EXCEPT !.snapshots = @ \cup {sourceGroup}] ELSE w
       [] data.type = "register_channel" ->
            IF ~isMain THEN w
            ELSE IF data.channelId # 0 /\ data.name # "" /\ data.folder # ""
                    /\ data.trigger # ""
            THEN [w EXCEPT !.registeredGroups[data.channelId] =
                     [folder |-> data.folder, requiresTrigger |-> "undefined"]]
            ELSE w
       [] OTHER -> w

(* fs.unlinkSync(filePath) / fs.renameSync(filePath, errors/...) *)
unlink(w, file) == [w EXCEPT !.ipcFiles = @ \ {file}]

quarantine(w, file) ==
  [w EXCEPT !.ipcFiles = @ \ {file},
            !.ipcErrors = @ \cup {<<file.dir, file.name>>}]

(* The watcher's handling of one file of {ipc}/{sourceGroup}/messages. *)
processMessageFile_NoAuth(w, file) ==
  LET sourceGroup == file.dir
      isMain == sourceGroup = MAIN_GROUP_FOLDER
      data == file.content
      targetGroup == RegisteredGroup(w, data.channelId)
  IN IF JSON_parse_throws(file) THEN quarantine(w, file)
     ELSE IF data.type = "message" /\ data.channelId # 0 /\ data.text # ""
     THEN IF isMain \/ targetGroup # NoGroup
          THEN unlink([w EXCEPT !.sent = Append(@, <<data.channelId, ASSISTANT_NAME, data.text>>)], file)
          ELSE unlink(w, file)
     ELSE unlink(w, file)

processMessageFile(w, file) ==
  LET sourceGroup == file.dir
      isMain == sourceGroup = MAIN_GROUP_FOLDER
      data == file.content
      targetGroup == RegisteredGroup(w, data.channelId)
  IN IF JSON_parse_throws(file) THEN quarantine(w, file)
     ELSE IF data.type = "message" /\ data.channelId # 0 /\ data.text # ""
     THEN IF isMain \/ (targetGroup # NoGroup /\ targetGroup.folder = sourceGroup)
          THEN unlink([w EXCEPT !.sent = Append(@, <<data.channelId, ASSISTANT_NAME, data.text>>)], file)
          ELSE unlink(w, file)
     ELSE unlink(w, file)

(* ... and of one file of {ipc}/{sourceGroup}/tasks. *)
processTaskFile(w, file) ==
  LET sourceGroup == file.dir
      isMain == sourceGroup = MAIN_GROUP_FOLDER
  IN IF JSON_parse_throws(file) THEN quarantine(w, file)
     ELSE unlink(processTaskIpc(w, file.content, sourceGroup, isMain), file)

EndsWithJson(file) == file.ext # <<>> /\ file.ext[Len(file.ext)] = ".json"

(* The files one pass of the watcher lists in its directories. *)
messageFiles(w) == {f \in w.ipcFiles : f.sub = "messages" /\ EndsWithJson(f)}
taskFiles(w) == {f \in w.ipcFiles : f.sub = "tasks" /\ EndsWithJson(f)}

processIpcFile(w, file) ==
  IF file.sub = "messages" THEN processMessageFile(w, file)
  ELSE processTaskFile(w, file)

(* ----------------------- the agent's side (ipc.ts) --------------------- *)
(* writeIpcFile: fs.writeFileSync(tempPath, ...) creates the file and      *)
(* fills it; the host is another process and may look at the directory     *)
(* in between.  Then fs.renameSync(tempPath, filepath).  A file name is    *)
(* its number and the sequence of its suffixes.                            *)
NewFile(w, dir, sub, ext, complete, data) ==
  [dir |-> dir, sub |-> sub, name |-> w.nextFile, ext |-> ext,
   complete |-> complete, content |-> data]

writeIpcFileOpen_FinalName(w, dir, sub, data) ==
  [w EXCEPT !.ipcFiles = @ \cup {NewFile(w, dir, sub, <<".json">>, FALSE, data)},
            !.nextFile = @ + 1]

writeIpcFileOpen(w, dir, sub, data) ==
  [w EXCEPT !.ipcFiles = @ \cup {NewFile(w, dir, sub, <<".json", ".tmp">>, FALSE, data)},
            !.nextFile = @ + 1]

writeIpcFileFill(w, file) ==
  [w EXCEPT !.ipcFiles = (@ \ {file}) \cup {[file EXCEPT !.complete = TRUE]}]

writeIpcFileRename(w, file) ==
  [w EXCEPT !.ipcFiles = (@ \ {file}) \cup {[file EXCEPT !.ext = <<".json">>]}]

(* The tools.  Each returns its reply and the payload it starts to write   *)
(* (NoData when it writes nothing).                                        *)
ipc_sendMessage(ctx, text) ==
  [reply |-> "Message sent.", sub |-> "messages",
   data |-> [NoData EXCEPT !.type = "message", !.channelId = ctx.channelId,
                           !.text = text, !.groupFolder = ctx.groupFolder]]

ipc_scheduleTask(ctx, prompt, scheduleType, scheduleValue, targetChannelId) ==
  LET ms == parseInt(scheduleValue)
  IN IF scheduleType = "cron" /\ CronExpressionParser_parse_throws(scheduleValue)
     THEN [reply |-> "Invalid cron", sub |-> "tasks", data |-> NoData]
     ELSE IF scheduleType = "interval" /\ (ms.isNaN \/ ms.value <= 0)
     THEN [reply |-> "Invalid interval", sub |-> "tasks", data |-> NoData]
     ELSE IF scheduleType = "once" /\ Date_isNaN(scheduleValue)
     THEN [reply |-> "Invalid timestamp", sub |-> "tasks", data |-> NoData]
     ELSE [reply |-> "Task scheduled", sub |-> "tasks",
           data |-> [NoData EXCEPT
                       !.type = "schedule_task", !.prompt = prompt,
                       !.schedule_type = scheduleType,
                       !.schedule_value = scheduleValue,
                       !.targetChannelId =
                          IF ctx.isMain /\ targetChannelId # 0
                          THEN targetChannelId ELSE ctx.channelId,
                       !.createdBy = ctx.groupFolder]]

ipc_taskAction(ctx, action, taskId) ==
  [reply |-> "requested", sub |-> "tasks",
   data |-> [NoData EXCEPT !.type = action, !.taskId = taskId,
                           !.groupFolder = ctx.groupFolder,
                           !.isMain = ctx.isMain]]

ipc_registerChannel(ctx, channelId, name, folder, trigger) ==
  IF ~ctx.isMain
  THEN [reply |-> "Only the main channel can register new channels.",
        sub |-> "tasks", data |-> NoData]
  ELSE [reply |-> "registered", sub |-> "tasks",
        data |-> [NoData EXCEPT !.type = "register_channel",
                                !.channelId = channelId, !.name = name,
                                !.folder = folder, !.trigger = trigger]]

(* The tool call as a whole, up to the creation of the temporary file. *)
toolCall(w, ctx, result) ==
  IF result.data = NoData THEN w
  ELSE writeIpcFileOpen(w, ctx.groupFolder, result.sub, result.data)

(* --------------------- the agent process (agent-runner) ----------------- *)
MAX_TURNS == 30
OUTPUT_START_MARKER == "---NANOCLAW_OUTPUT_START---"
OUTPUT_END_MARKER == "---NANOCLAW_OUTPUT_END---"

(* process.env: a variable that is not set is "undefined". *)
SECRETS == {"GEMINI_API_KEY", "GEMINI_MODEL"}
EnvNames == SECRETS \cup {"PATH"}
EnvValues == {"undefined", "a", "b"}

(* An environment handed to a child: the pairs of the variables it holds. *)
safeEnv_KeepsModel(env) ==
  {<<k, env[k]>> : k \in {n \in EnvNames : n # "GEMINI_API_KEY" /\ env[n] # "undefined"}}

safeEnv(env) ==
  {<<k, env[k]>> : k \in {n \in EnvNames : n \notin SECRETS /\ env[n] # "undefined"}}

(* execSync(command, {env}) *)
execSync(ch, command, env) == ch \cup {[command |-> command, env |-> env]}

bash(ch, env) == execSync(ch, "bash", safeEnv(env))
searchFiles(ch, env) == execSync(ch, "grep", safeEnv(env))
webFetch(ch, env) == execSync(ch, "curl", safeEnv(env))

(* main() of the agent runner.  stdin is one of: text that is no JSON, the *)
(* JSON value null, an object whose images field is no array, an input     *)
(* without sessionId, an input with sessionId.                             *)
StdinKinds == {"garbage", "null", "badImages", "new", "resume"}

AgentInit ==
  [pc |-> "readStdin", turns |-> 0, llmCalls |-> 0, stdout |-> <<>>,
   result |-> "null", sessionId |-> "", exitCode |-> "none"]

(* Three lines on stdout; a line is the tuple of its fields. *)
writeOutput(a, status, result, newSessionId) ==
  [a EXCEPT !.stdout = @ \o << <<OUTPUT_START_MARKER>>,
                               <<status, result, newSessionId>>,
                               <<OUTPUT_END_MARKER>> >>]

exit(a, code) == [a EXCEPT !.pc = "exited", !.exitCode = code]

(* catch (err) around the loop *)
catchBlock(a) == exit(writeOutput(a, "error", "null", a.sessionId), 1)

(* After the loop: saveSession, archiveConversation, writeOutput. *)
finish(a, saved) ==
  IF saved = "throw" THEN catchBlock(a)
  ELSE exit(writeOutput(a, "success",
                        IF a.result = "null" THEN "log" ELSE a.result,
                        a.sessionId), 0)

whileLoop_OneMore(a, saved) ==
  IF a.turns <= MAX_TURNS
  THEN [a EXCEPT !.turns = @ + 1, !.llmCalls = @ + 1, !.pc = "generateContent"]
  ELSE finish(a, saved)

(* while (turns < MAX_TURNS) { turns++; await ai.models.generateContent *)
whileLoop(a, saved) ==
  IF a.turns < MAX_TURNS
  THEN [a EXCEPT !.turns = @ + 1, !.llmCalls = @ + 1, !.pc = "generateContent"]
  ELSE finish(a, saved)

(* main from the end of stdin to the first await of the loop. *)
main(a, stdinData, env, saved) ==
  IF stdinData \in {"garbage", "null"}
  THEN exit(writeOutput(a, "error", "null", ""), 1)
  ELSE IF env["GEMINI_API_KEY"] = "undefined"
  THEN exit(writeOutput(a, "error", "null", ""), 1)
  ELSE IF stdinData = "badImages"
  THEN exit(a, 1)
  ELSE whileLoop([a EXCEPT !.sessionId =
                     IF stdinData = "resume" THEN "given" ELSE "generated"],
                 saved)

(* The model's response arrives. *)
generateContentSettles(a, response, saved) ==
  CASE response = "throw" -> catchBlock(a)
    [] response = "functionCalls" -> [a EXCEPT !.pc = "executeTool"]
    [] response = "text" -> finish([a EXCEPT !.result = "message"], saved)
    [] OTHER -> finish([a EXCEPT !.result = "log"], saved)

(* The tools of one response have run. *)
executeToolSettles(a, outcome, saved) ==
  IF outcome = "throw" THEN catchBlock(a) ELSE whileLoop(a, saved)

(* --------------------------- attachments.ts ---------------------------- *)
IMAGE_TYPES == {"image/png", "image/jpeg", "image/gif", "image/webp"}

(* A Buffer is the sequence of its bytes; a name is the sequence of its    *)
(* characters.  The disk maps a relative path attachments/{messageId}/     *)
(* {name}, written <<messageId, name>>, to the file's bytes, or to NoFile. *)
NoFile == <<-1>>
PngSignature == <<137, 80, 78, 71, 13, 10, 26, 10>>
JpegSignature == <<255, 216, 255>>
Gif87a == <<71, 73, 70, 56, 55, 97>>
Gif89a == <<71, 73, 70, 56, 57, 97>>
Riff == <<82, 73, 70, 70>>
Webp == <<87, 69, 66, 80>>

Prefix(buf, n) == SubSeq(buf, 1, n)

MAGIC_BYTES(mimeType, buf) ==
  CASE mimeType = "image/png" -> Len(buf) >= 8 /\ Prefix(buf, 8) = PngSignature
    [] mimeType = "image/jpeg" -> Len(buf) >= 3 /\ Prefix(buf, 3) = JpegSignature
    [] mimeType = "image/gif" -> Len(buf) >= 6 /\ Prefix(buf, 6) \in {Gif87a, Gif89a}
    [] mimeType = "image/webp" ->
         Len(buf) >= 12 /\ Prefix(buf, 4) = Riff /\ SubSeq(buf, 9, 12) = Webp

validateImageMagicBytes_LengthOnly(buffer, mimeType) ==
  IF mimeType \notin IMAGE_TYPES THEN FALSE
  ELSE Len(buffer) >= 3

validateImageMagicBytes(buffer, mimeType) ==
  IF mimeType \notin IMAGE_TYPES THEN FALSE
  ELSE MAGIC_BYTES(mimeType, buffer)

(* (att.name || 'file').replace(/[^a-zA-Z0-9._-]/g, '_') *)
AttachmentSafeChars == {"a", "b", "f", "i", "l", "e", "1", ".", "_", "-"}
attachmentSafeName(name) ==
  LET n == IF name = <<>> THEN <<"f", "i", "l", "e">> ELSE name
  IN [i \in 1..Len(n) |-> IF n[i] \in AttachmentSafeChars
                          THEN n[i] ELSE "_"]

AttachPaths ==
  {1, 2, 3} \X {<<"a">>, <<"b", "_">>, <<"f", "i", "l", "e">>}
NoImage == [name |-> <<>>, mimeType |-> "", data |-> <<>>]

(* The state of attachments.ts: the disk under the group directory, the    *)
(* last downloadAttachments call (request, result), and the locals of a    *)
(* collectImages call.                                                     *)
AttachInit ==
  [disk |-> [p \in AttachPaths |-> NoFile], downloaded |-> {},
   request |-> <<>>, result |-> <<>>,
   pc |-> "idle", input |-> <<>>, markers |-> <<>>, images |-> <<>>,
   totalSize |-> 0, maxPerImage |-> 0, maxTotal |-> 0,
   scanner |-> FALSE, scanned |-> NoImage]

(* downloadAttachments: the loop over the attachments, with the disk and   *)
(* the result so far.                                                      *)
RECURSIVE downloadLoop(_, _, _, _)
downloadLoop(disk, result, messageId, attachments) ==
  IF attachments = <<>> THEN [disk |-> disk, result |-> result]
  ELSE LET att == Head(attachments)
           name == attachmentSafeName(att.name)
       IN IF att.contentType \in IMAGE_TYPES
             /\ ~validateImageMagicBytes(att.buffer, att.contentType)
          THEN downloadLoop(disk, result, messageId, Tail(attachments))
          ELSE downloadLoop(
                 [disk EXCEPT ![<<messageId, name>>] = att.buffer],
                 Append(result, [name |-> name, contentType |-> att.contentType,
                                 relativePath |-> <<messageId, name>>]),
                 messageId, Tail(attachments))

downloadAttachments(a, messageId, attachments) ==
  LET r == downloadLoop(a.disk, <<>>, messageId, attachments)
  IN [a EXCEPT !.disk = r.disk,
               !.downloaded = @ \cup {messageId},
               !.result = r.result]

(* collectImages: images.push({name, mimeType, data}); totalSize += size *)
push(a, image) ==
  [a EXCEPT !.images = Append(@, image), !.totalSize = @ + Len(image.data)]

(* The loop over the markers up to the next awaited scan, or to the end. *)
RECURSIVE collectLoop_NoTotalCap(_)
collectLoop_NoTotalCap(a) ==
  IF a.markers = <<>> THEN [a EXCEPT !.pc = "returned"]
  ELSE LET m == Head(a.markers)
           rest == [a EXCEPT !.markers = Tail(@)]
           file == a.disk[m.relativePath]
           image == [name |-> m.name, mimeType |-> m.mimeType, data |-> file]
       IN IF m.mimeType \notin IMAGE_TYPES THEN collectLoop_NoTotalCap(rest)
          ELSE IF file = NoFile THEN collectLoop_NoTotalCap(rest)
          ELSE IF Len(file) > a.maxPerImage THEN collectLoop_NoTotalCap(rest)
          ELSE IF a.scanner
          THEN [rest EXCEPT !.pc = "scanning", !.scanned = image]
          ELSE collectLoop_NoTotalCap(push(rest, image))

RECURSIVE collectLoop(_)
collectLoop(a) ==
  IF a.markers = <<>> THEN [a EXCEPT !.pc = "returned"]
  ELSE LET m == Head(a.markers)
           rest == [a EXCEPT !.markers = Tail(@)]
           file == a.disk[m.relativePath]
           image == [name |-> m.name, mimeType |-> m.mimeType, data |-> file]
       IN IF m.mimeType \notin IMAGE_TYPES THEN collectLoop(rest)
          ELSE IF file = NoFile THEN collectLoop(rest)
          ELSE IF Len(file) > a.maxPerImage THEN collectLoop(rest)
          ELSE IF a.totalSize + Len(file) > a.maxTotal THEN collectLoop(rest)
          ELSE IF a.scanner
          THEN [rest EXCEPT !.pc = "scanning", !.scanned = image]
          ELSE collectLoop(push(rest, image))

collectImages(a, markers, maxPerImage, maxTotal, scanner) ==
  collectLoop([a EXCEPT !.pc = "collecting", !.input = markers,
                        !.markers = markers, !.images = <<>>, !.totalSize = 0,
                        !.maxPerImage = maxPerImage, !.maxTotal = maxTotal,
                        !.scanner = scanner])

(* The awaited scanner settles: safe, unsafe, or it rejects (fail open). *)
scannerSettles(a, outcome) ==
  IF outcome = "unsafe" THEN collectLoop(a)
  ELSE collectLoop(push(a, a.scanned))

(* ----------------------- runAgent and the sessions --------------------- *)
(* sessions[folder] in memory (mem) and the sessions row (db); run is the  *)
(* runAgent call in flight with the sessionId it read, output the last     *)
(* ContainerOutput it got.                                                 *)
SessionFolders == {MAIN_GROUP_FOLDER, "g2"}
NoRun == [folder |-> "", sessionId |-> "undefined"]
NoOutput == [status |-> "", result |-> "null", newSessionId |-> ""]
SessionsInit ==
  [mem |-> [f \in SessionFolders |-> "undefined"],
   db |-> [f \in SessionFolders |-> "undefined"],
   run |-> NoRun, output |-> NoOutput]

(* const sessionId = sessions[group.folder] *)
runAgentStart(s, folder) ==
  [s EXCEPT !.run = [folder |-> folder, sessionId |-> s.mem[folder]]]

(* The runner's result: the JSON between the last pair of markers on the   *)
(* child's stdout; without a block, an error output of the runner's own.   *)
runContainerAgent(a, run) ==
  IF Len(a.stdout) < 3
  THEN [status |-> "error", result |-> "null", newSessionId |-> ""]
  ELSE LET json == a.stdout[Len(a.stdout) - 1]
       IN [status |-> json[1], result |-> json[2],
           newSessionId |-> CASE json[3] = "given" -> run.sessionId
                              [] json[3] = "generated" -> "s1"
                              [] OTHER -> ""]

runAgentSettle_StoresAlways(s, output) ==
  LET f == s.run.folder
  IN [s EXCEPT !.mem[f] = output.newSessionId,
               !.db[f] = output.newSessionId,
               !.run = NoRun, !.output = output]

(* runAgent after runContainerAgent resolved. *)
runAgentSettle(s, output) ==
  LET f == s.run.folder
  IN IF output.newSessionId # ""
     THEN [s EXCEPT !.mem[f] = output.newSessionId,
                    !.db[f] = output.newSessionId,
                    !.run = NoRun, !.output = output]
     ELSE [s EXCEPT !.run = NoRun, !.output = output]

(* ------------------------------ actions -------------------------------- *)
intakeVars == <<fetching, clock>>
ipcVars == <<tasks, ipcFiles, ipcErrors, sent, snapshots, nextFile,
            procs, shutdownPc, activeProcs, agentVars, attach, sessions>>
envVars == <<intakeVars, failuresLeft>>
loopVars == <<pollPc, pollMessages, phase>>

(* A promise continuation that is already runnable goes before any timer   *)
(* or I/O event; the enqueue loop of a poll tick is synchronous.           *)
NoMicrotask == \A j \in jobs : j.phase # "returned"
Idle == phase = "running" /\ pollPc = "idle" /\ NoMicrotask

(* The environment makes a run fail at most MaxFailures times in all.      *)
Settle(failed) ==
  /\ failed => failuresLeft > 0
  /\ failuresLeft' = IF failed THEN failuresLeft - 1 ELSE failuresLeft

(* A caller of the queue's public API (SpecQueue only). *)
EnqueueMessageCheckCall(c) ==
  /\ Idle
  /\ Commit(enqueueMessageCheck(World, c))
  /\ UNCHANGED <<envVars, loopVars>>

(* The scheduler hands a due task to the queue. *)
EnqueueTaskCall(c, taskId) ==
  /\ Idle
  /\ Commit(enqueueTask(World, c, taskId))
  /\ UNCHANGED <<envVars, loopVars>>

RetryTimerFires(c) ==
  /\ Idle
  /\ \E delayMs \in BagToSet(timers[c]) : Commit(retryTimer(World, c, delayMs))
  /\ UNCHANGED <<envVars, loopVars>>

(* An injected processor settles: resolves true or false, or rejects. *)
InjectedSettles(c, outcome) ==
  /\ Idle
  /\ \E job \in jobs :
       /\ job.channelId = c /\ job.phase = "injected"
       /\ Settle(outcome # "true")
       /\ Commit(runForGroupSettle(World, job, outcome))
  /\ UNCHANGED <<intakeVars, loopVars>>

TaskSettles(c) ==
  /\ Idle
  /\ \E job \in jobs :
       /\ job.channelId = c /\ job.phase = "task"
       /\ Commit(runTaskSettle(World, job))
  /\ UNCHANGED <<envVars, loopVars>>

Shutdown ==
  /\ Idle
  /\ ~shuttingDown
  /\ Commit(shutdown(World))
  /\ UNCHANGED <<envVars, loopVars>>

(* Events.MessageCreate for a registered channel, from a non-bot author.   *)
(* (For an unregistered channel only the chat metadata row is touched.)    *)
MessageEvents ==
  { [mentions |-> TRUE,  hasRef |-> FALSE, content |-> "hi",       sender |-> "u1"],
    [mentions |-> FALSE, hasRef |-> TRUE,  content |-> "hi",       sender |-> "u1"],
    [mentions |-> FALSE, hasRef |-> FALSE, content |-> "hey nano", sender |-> "u1"],
    [mentions |-> FALSE, hasRef |-> FALSE, content |-> "hi",       sender |-> "u1"],
    [mentions |-> FALSE, hasRef |-> FALSE, content |-> "hi",       sender |-> ASSISTANT_NAME] }

Row(c, ts, ev, mentionsBot) ==
  [channel_id |-> c, timestamp |-> ts, sender_name |-> ev.sender,
   content |-> ev.content, mentions_bot |-> mentionsBot]

MessageCreate(c, ev) ==
  /\ Idle
  /\ clock <= MaxTs
  /\ registeredGroups[c] # NoGroup
  /\ clock' = clock + 1
  /\ IF ~ev.mentions /\ ev.hasRef
     THEN /\ fetching' = fetching \cup {[channel_id |-> c, timestamp |-> clock, ev |-> ev]}
          /\ UNCHANGED messages
     ELSE /\ messages' = messages \cup {Row(c, clock, ev, ev.mentions)}
          /\ UNCHANGED fetching
  /\ UNCHANGED <<groups, activeCount, waitingGroups, shuttingDown,
                 processMessagesFn, jobs, timers, lastTimestamp,
                 lastAgentTimestamp, registeredGroups, router_state,
                 startedWhileActive, included, lastFailed, failedInARow,
                 ipcVars, failuresLeft, loopVars>>

(* The fetch of the replied-to message settles: it is the bot's, somebody  *)
(* else's, or the fetch throws; then the row is stored.                    *)
FetchSettles(f, result) ==
  /\ Idle
  /\ f \in fetching
  /\ fetching' = fetching \ {f}
  /\ messages' = messages \cup {Row(f.channel_id, f.timestamp, f.ev, result = "bot")}
  /\ UNCHANGED <<groups, activeCount, waitingGroups, shuttingDown,
                 processMessagesFn, jobs, timers, lastTimestamp,
                 lastAgentTimestamp, registeredGroups, router_state,
                 startedWhileActive, included, lastFailed, failedInARow,
                 ipcVars, failuresLeft, clock, loopVars>>

(* A poll tick that finds new messages: advance and persist the cursor. *)
PollTick ==
  /\ Idle
  /\ LET r == pollRead(World)
     IN /\ r.found # {}
        /\ Commit(r.w)
        /\ pollMessages' = r.found
        /\ pollPc' = "dispatch"
  /\ UNCHANGED <<envVars, phase>>

(* ... and then the enqueue loop of the same tick. *)
PollDispatch ==
  /\ phase = "running"
  /\ pollPc = "dispatch"
  /\ Commit(pollDispatch(World, pollMessages))
  /\ pollMessages' = {}
  /\ pollPc' = "idle"
  /\ UNCHANGED <<envVars, phase>>

(* The processor returned true before its first await. *)
ReturnedContinue(c) ==
  /\ phase = "running" /\ pollPc = "idle"
  /\ \E job \in jobs :
       /\ job.channelId = c /\ job.phase = "returned"
       /\ Commit(runForGroupSettle(World, job, "true"))
  /\ UNCHANGED <<envVars, loopVars>>

(* What runAgent returns: 'error', or the AgentResponse: outputType      *)
(* message with a userMessage, message with an empty userMessage, log, or *)
(* the {outputType: 'log'} that stands for a null result.                  *)
Responses == {"error", "message", "messageEmpty", "log", "null"}

AgentReturns(c, response) ==
  /\ Idle
  /\ \E job \in jobs :
       /\ job.channelId = c /\ job.phase = "agent"
       /\ Settle(response = "error")
       /\ Commit(processGroupMessagesResume(World, job, response))
  /\ UNCHANGED <<intakeVars, loopVars>>

SendSettles(c) ==
  /\ Idle
  /\ \E job \in jobs :
       /\ job.channelId = c /\ job.phase = "sending"
       /\ Commit(runForGroupSettle(World, job, "true"))
  /\ UNCHANGED <<envVars, loopVars>>

ZeroPerChannel == [c \in Channels |-> 0]
NoTimers == [c \in Channels |-> EmptyBag]

(* The process dies (or exits after shutdown) and is started again: main() *)
(* builds a fresh queue and loads the persisted state.                     *)
Crash ==
  /\ phase = "running"
  /\ Commit(loadState(
       [World EXCEPT !.groups = [c \in Channels |-> GroupInit],
                     !.activeCount = 0, !.waitingGroups = <<>>,
                     !.shuttingDown = FALSE, !.processMessagesFn = "null",
                     !.jobs = {}, !.timers = NoTimers,
                     !.lastFailed = [c \in Channels |-> <<>>],
                     !.failedInARow = ZeroPerChannel]))
  /\ fetching' = {}
  /\ pollPc' = "idle"
  /\ pollMessages' = {}
  /\ phase' = "booting"
  /\ UNCHANGED <<clock, failuresLeft>>

(* Events.ClientReady: inject the processor, recover, and run the first    *)
(* iteration of the message loop up to its enqueue loop.                   *)
ClientReadyRun(w) ==
  LET w1 == recoverPendingMessages(
              [w EXCEPT !.processMessagesFn = "processGroupMessages"])
  IN [recovered |-> w1, r |-> pollRead(w1)]

ClientReady ==
  /\ phase = "booting"
  /\ LET r == ClientReadyRun(World).r
     IN /\ Commit(r.w)
        /\ pollMessages' = r.found
        /\ pollPc' = IF r.found # {} THEN "dispatch" ELSE "idle"
  /\ phase' = "running"
  /\ UNCHANGED envVars

(* ------------------------------ IPC actions ---------------------------- *)
(* The directories under {ipc}: one per group folder, whatever the folder. *)
IpcFolders == {MAIN_GROUP_FOLDER, "g2", "g3"}

(* schedule_type and schedule_value as the agent may give them. *)
IpcSchedules ==
  { <<"cron", EveryMinute>>, <<"cron", <<"a">>>>,
    <<"interval", <<"6", "0">>>>, <<"interval", <<"5", "m">>>>,
    <<"interval", <<"a">>>>, <<"interval", <<"0">>>>,
    <<"interval", <<"-", "5">>>>,
    <<"once", Year2030>>, <<"once", <<"a">>>>,
    <<"weekly", <<"1">>>> }

IpcTaskIds == 1..MaxFiles

(* What a file in an IPC directory may hold: anything the container wrote. *)
IpcPayloads ==
  {Malformed}
  \cup {[NoData EXCEPT !.type = "message", !.channelId = c, !.text = "hi"] :
          c \in Channels}
  \cup {[NoData EXCEPT !.type = "schedule_task", !.prompt = "p",
                       !.schedule_type = "interval",
                       !.schedule_value = <<"6", "0">>,
                       !.targetChannelId = c] : c \in Channels}
  \cup {[NoData EXCEPT !.type = "schedule_task", !.prompt = "p",
                       !.schedule_type = sv[1], !.schedule_value = sv[2],
                       !.targetChannelId = 2] : sv \in IpcSchedules}
  \cup {[NoData EXCEPT !.type = a, !.taskId = id] :
          a \in {"pause_task", "resume_task", "cancel_task"}, id \in IpcTaskIds}
  \cup {[NoData EXCEPT !.type = "refresh_groups"]}
  \cup {[NoData EXCEPT !.type = "unknown"]}
  \cup {[NoData EXCEPT !.type = "register_channel", !.channelId = NumChannels,
                       !.name = "n", !.folder = f, !.trigger = "@n"] :
          f \in {"g2", "g3"}}

(* The file as the watcher finds it in {ipc}/{sourceGroup}/{sub}. *)
Arrived(w, sourceGroup, sub, data) ==
  NewFile(w, sourceGroup, sub, <<".json">>, TRUE, data)

WithFile(w, file) ==
  [w EXCEPT !.ipcFiles = @ \cup {file}, !.nextFile = @ + 1]

(* A complete file is in a directory when the watcher passes. *)
IpcFileArrives(sourceGroup, sub, data) ==
  /\ nextFile <= MaxFiles
  /\ LET file == Arrived(World, sourceGroup, sub, data)
     IN Commit(processIpcFile(WithFile(World, file), file))
  /\ UNCHANGED <<envVars, loopVars>>

(* The agents of the main channel and of channel 2, as the host starts     *)
(* them: CHANNEL_ID, GROUP_FOLDER and IS_MAIN come from the registration.  *)
IpcContexts ==
  { [channelId |-> 1, groupFolder |-> MAIN_GROUP_FOLDER, isMain |-> TRUE],
    [channelId |-> 2, groupFolder |-> "g2", isMain |-> FALSE] }

ToolResults(ctx) ==
  {ipc_sendMessage(ctx, "hi")}
  \cup {ipc_scheduleTask(ctx, "p", sv[1], sv[2], target) :
          sv \in IpcSchedules, target \in {0, 2}}
  \cup {ipc_taskAction(ctx, "cancel_task", 1)}
  \cup {ipc_registerChannel(ctx, NumChannels, "n", "g3", "@n")}

ToolCall(ctx, result) ==
  /\ nextFile <= MaxFiles
  /\ Commit(toolCall(World, ctx, result))
  /\ UNCHANGED <<envVars, loopVars>>

WriteFill(file) ==
  /\ file \in ipcFiles
  /\ ~file.complete
  /\ Commit(writeIpcFileFill(World, file))
  /\ UNCHANGED <<envVars, loopVars>>

WriteRename(file) ==
  /\ file \in ipcFiles
  /\ file.complete
  /\ ~EndsWithJson(file)
  /\ Commit(writeIpcFileRename(World, file))
  /\ UNCHANGED <<envVars, loopVars>>

(* One file of one pass of the watcher. *)
WatcherPass(file) ==
  /\ file \in messageFiles(World) \cup taskFiles(World)
  /\ Commit(processIpcFile(World, file))
  /\ UNCHANGED <<envVars, loopVars>>


(* --------------------------- shutdown actions -------------------------- *)
(* index.ts: process.exit(0) follows the return of queue.shutdown. *)
HostAlive == shutdownPc \in {"idle", "waiting"}

ContainerNames == {<<>>, <<"n", "-", "1">>}

(* The processor of a running job gets to runContainerAgent, which spawns  *)
(* the container and hands it to the queue.                                *)
Spawn(c, containerName) ==
  /\ Idle /\ HostAlive
  /\ \E job \in jobs : job.channelId = c /\ job.phase = "injected"
  /\ groups[c].process = "null"
  /\ Commit(registerProcess(spawn(World, c), c, containerName))
  /\ UNCHANGED <<envVars, loopVars>>

(* The subprocess exits: by itself, or stopped or killed. *)
ProcessExits(c) ==
  /\ procs[c].live = "running"
  /\ Commit([World EXCEPT !.procs[c].live = "exited"])
  /\ UNCHANGED <<envVars, loopVars>>

(* runContainerAgent resolves when the subprocess has closed. *)
JobSettles(c, outcome) ==
  /\ HostAlive
  /\ procs[c].live # "running"
  /\ InjectedSettles(c, outcome)

CheckInterval ==
  /\ shutdownPc = "waiting"
  /\ Commit(checkInterval(World))
  /\ UNCHANGED <<envVars, loopVars>>

GraceExpires ==
  /\ shutdownPc = "waiting"
  /\ Commit(graceTimeout(World))
  /\ UNCHANGED <<envVars, loopVars>>


(* ----------------------------- agent actions --------------------------- *)
AgentStart(stdinData, saved) ==
  /\ agent.pc = "readStdin"
  /\ agent' = main(agent, stdinData, processEnv, saved)
  /\ UNCHANGED <<hostVars, processEnv, children>>

ModelResponds(response, saved) ==
  /\ agent.pc = "generateContent"
  /\ agent' = generateContentSettles(agent, response, saved)
  /\ UNCHANGED <<hostVars, processEnv, children>>

ToolsReturn(outcome, saved) ==
  /\ agent.pc = "executeTool"
  /\ agent' = executeToolSettles(agent, outcome, saved)
  /\ UNCHANGED <<hostVars, processEnv, children>>

BashCall ==
  /\ children' = bash(children, processEnv)
  /\ UNCHANGED <<hostVars, agent, processEnv>>

SearchFilesCall ==
  /\ children' = searchFiles(children, processEnv)
  /\ UNCHANGED <<hostVars, agent, processEnv>>

WebFetchCall ==
  /\ children' = webFetch(children, processEnv)
  /\ UNCHANGED <<hostVars, agent, processEnv>>


(* -------------------------- attachment actions ------------------------- *)
(* Buffers as they arrive from the CDN. *)
PngCut == Prefix(PngSignature, 7)
Gif88a == <<71, 73, 70, 56, 56, 97>>
WebpFile == Riff \o <<0, 0, 0, 0>> \o Webp
WaveFile == Riff \o <<0, 0, 0, 0>> \o <<87, 65, 86, 69>>
Elf == <<127, 69, 76, 70>>
Buffers == {PngSignature, PngCut, JpegSignature, Gif87a, Gif89a, Gif88a,
            WebpFile, WaveFile, Elf}
ContentTypes == IMAGE_TYPES \cup {"text/plain", "image/svg+xml"}

Attachments ==
  [name : {<<"a">>, <<"b", "/">>}, contentType : ContentTypes, buffer : Buffers]
  \cup [name : {<<>>}, contentType : {"image/png"}, buffer : {PngSignature, Elf}]

Batches(S) == {<<>>} \cup {<<x>> : x \in S} \cup {<<x, y>> : x \in S, y \in S}

(* A few batches for the disk that collectImages reads. *)
StoredBatches ==
  { <<[name |-> <<"a">>, contentType |-> "image/png", buffer |-> PngSignature]>>,
    <<[name |-> <<"a">>, contentType |-> "image/jpeg", buffer |-> JpegSignature],
      [name |-> <<"b", "/">>, contentType |-> "image/gif", buffer |-> Gif89a]>>,
    <<[name |-> <<"a">>, contentType |-> "image/webp", buffer |-> WebpFile],
      [name |-> <<"b", "/">>, contentType |-> "text/plain", buffer |-> Elf]>> }

DownloadAttachments(messageId, attachments) ==
  /\ messageId \notin attach.downloaded
  /\ attach' = [downloadAttachments(attach, messageId, attachments)
                  EXCEPT !.request = attachments]
  /\ UNCHANGED <<supervisorVars, agentVars, sessions>>

SeqsUpTo(S, n) == UNION {[1..k -> S] : k \in 0..n}

(* Parsed [file: name | mimeType | relativePath] markers; nothing is ever *)
(* stored for message 3.                                                  *)
Markers ==
  [name : {<<"a">>}, mimeType : {"image/png"},
   relativePath : {<<1, <<"a">> >>, <<1, <<"b", "_">> >>, <<2, <<"a">> >>,
                   <<3, <<"a">> >>}]
  \cup [name : {<<"a">>}, mimeType : {"text/plain", "image/svg+xml"},
        relativePath : {<<1, <<"a">> >>}]

CollectImages(markers, caps, scanner) ==
  /\ attach.pc = "idle"
  /\ attach' = collectImages(attach, markers, caps[1], caps[2], scanner)
  /\ UNCHANGED <<supervisorVars, agentVars, sessions>>

ScannerSettles(outcome) ==
  /\ attach.pc = "scanning"
  /\ attach' = scannerSettles(attach, outcome)
  /\ UNCHANGED <<supervisorVars, agentVars, sessions>>


(* --------------------------- session actions --------------------------- *)
(* runAgent starts a container for the folder: the host writes the input   *)
(* (with the stored sessionId, if any) to its stdin; the container's       *)
(* environment may or may not hold the API key.                            *)
RunAgent(folder, key, saved) ==
  /\ sessions.run = NoRun
  /\ agent.pc = "readStdin"
  /\ sessions' = runAgentStart(sessions, folder)
  /\ processEnv' = [processEnv EXCEPT !["GEMINI_API_KEY"] = key]
  /\ agent' = main(agent,
                   IF sessions.mem[folder] = "undefined" THEN "new" ELSE "resume",
                   processEnv', saved)
  /\ UNCHANGED <<supervisorVars, attach, children>>

(* The container exited and runContainerAgent resolved. *)
RunAgentReturns ==
  /\ sessions.run # NoRun
  /\ agent.pc = "exited"
  /\ sessions' = runAgentSettle(sessions, runContainerAgent(agent, sessions.run))
  /\ agent' = AgentInit
  /\ UNCHANGED <<supervisorVars, attach, processEnv, children>>


(* --------------------------- specifications ---------------------------- *)
InitQueueState ==
  /\ groups = [c \in Channels |-> GroupInit]
  /\ activeCount = 0
  /\ waitingGroups = <<>>
  /\ shuttingDown = FALSE
  /\ jobs = {}
  /\ timers = NoTimers
  /\ startedWhileActive = FALSE
  /\ lastFailed = [c \in Channels |-> <<>>]
  /\ failedInARow = ZeroPerChannel
  /\ procs = [c \in Channels |-> NoProc]
  /\ shutdownPc = "idle"
  /\ activeProcs = {}

InitHostStore ==
  /\ lastTimestamp = 0
  /\ lastAgentTimestamp = ZeroPerChannel
  /\ messages = {}
  /\ router_state = [last_timestamp |-> 0, last_agent_timestamp |-> ZeroPerChannel]
  /\ fetching = {}
  /\ clock = 1
  /\ pollPc = "idle"
  /\ pollMessages = {}
  /\ included = [t \in 1..MaxTs |-> 0]
  /\ tasks = {}
  /\ ipcFiles = {}
  /\ ipcErrors = {}
  /\ sent = <<>>
  /\ snapshots = {}
  /\ nextFile = 1
  /\ attach = AttachInit
  /\ sessions = SessionsInit

InitStore ==
  /\ InitHostStore
  /\ agent = AgentInit
  /\ processEnv = [n \in EnvNames |-> "a"]
  /\ children = {}

(* The supervisor: a fresh install with the main channel and one channel   *)
(* that requires a trigger.                                                *)
Init ==
  /\ InitQueueState
  /\ InitStore
  /\ failuresLeft = MaxFailures
  /\ processMessagesFn = "null"
  /\ registeredGroups = [c \in Channels |->
        IF c = 1 THEN [folder |-> MAIN_GROUP_FOLDER, requiresTrigger |-> "true"]
        ELSE IF c = 2 THEN [folder |-> "g2", requiresTrigger |-> "true"]
        ELSE NoGroup]
  /\ phase = "booting"

Next ==
  \/ \E c \in Channels, ev \in MessageEvents : MessageCreate(c, ev)
  \/ \E f \in fetching, result \in {"bot", "other", "throw"} : FetchSettles(f, result)
  \/ PollTick
  \/ PollDispatch
  \/ \E c \in Channels : ReturnedContinue(c)
  \/ \E c \in Channels, response \in Responses : AgentReturns(c, response)
  \/ \E c \in Channels : SendSettles(c)
  \/ \E c \in Channels : RetryTimerFires(c)
  \/ Crash
  \/ ClientReady

Spec == Init /\ [][Next]_vars

(* The queue alone, driven through its public API with an arbitrary        *)
(* injected processor.                                                     *)
InitQueue ==
  /\ InitQueueState
  /\ InitStore
  /\ failuresLeft = MaxFailures
  /\ processMessagesFn = "injected"
  /\ registeredGroups = [c \in Channels |-> NoGroup]
  /\ phase = "running"

NextQueue ==
  \/ \E c \in Channels : EnqueueMessageCheckCall(c)
  \/ \E taskId \in TaskIds : EnqueueTaskCall(TaskChannel(taskId), taskId)
  \/ \E c \in Channels, outcome \in {"true", "false", "throw"} : InjectedSettles(c, outcome)
  \/ \E c \in Channels : TaskSettles(c)
  \/ \E c \in Channels : RetryTimerFires(c)
  \/ Shutdown

SpecQueue == InitQueue /\ [][NextQueue]_vars

(* The queue while Shutdown is never called, where every job completes and *)
(* every retry timer fires.                                                *)
NextQueueLive ==
  \/ \E c \in Channels : EnqueueMessageCheckCall(c)
  \/ \E taskId \in TaskIds : EnqueueTaskCall(TaskChannel(taskId), taskId)
  \/ \E c \in Channels, outcome \in {"true", "false", "throw"} : InjectedSettles(c, outcome)
  \/ \E c \in Channels : TaskSettles(c)
  \/ \E c \in Channels : RetryTimerFires(c)

JobsComplete ==
  \A c \in Channels :
    /\ WF_vars(\E outcome \in {"true", "false", "throw"} : InjectedSettles(c, outcome))
    /\ WF_vars(TaskSettles(c))
    /\ WF_vars(RetryTimerFires(c))

SpecQueueLive == InitQueue /\ [][NextQueueLive]_vars /\ JobsComplete

(* The queue serving one channel whose injected processor may fail often   *)
(* enough to use up the retries.                                           *)
InitRetry ==
  /\ InitQueueState
  /\ InitStore
  /\ failuresLeft = MAX_RETRIES + 1
  /\ processMessagesFn = "injected"
  /\ registeredGroups = [c \in Channels |-> NoGroup]
  /\ phase = "running"

NextRetry ==
  \/ EnqueueMessageCheckCall(1)
  \/ \E outcome \in {"true", "false", "throw"} : InjectedSettles(1, outcome)
  \/ RetryTimerFires(1)

SpecRetry == InitRetry /\ [][NextRetry]_vars

(* The supervisor serving one channel, for every kind of registration: the *)
(* main channel, and another folder with requiresTrigger true, false or    *)
(* absent.                                                                 *)
GateGroups ==
  { [folder |-> MAIN_GROUP_FOLDER, requiresTrigger |-> "true"],
    [folder |-> "g2", requiresTrigger |-> "true"],
    [folder |-> "g2", requiresTrigger |-> "false"],
    [folder |-> "g2", requiresTrigger |-> "undefined"] }

InitGate ==
  /\ InitQueueState
  /\ InitStore
  /\ failuresLeft = MaxFailures
  /\ processMessagesFn = "processGroupMessages"
  /\ \E g \in GateGroups :
       registeredGroups = [c \in Channels |-> IF c = 1 THEN g ELSE NoGroup]
  /\ phase = "running"

NextGate ==
  \/ \E ev \in MessageEvents : MessageCreate(1, ev)
  \/ \E f \in fetching, result \in {"bot", "other", "throw"} : FetchSettles(f, result)
  \/ PollTick
  \/ PollDispatch
  \/ ReturnedContinue(1)
  \/ \E response \in Responses : AgentReturns(1, response)
  \/ SendSettles(1)
  \/ RetryTimerFires(1)

SpecGate == InitGate /\ [][NextGate]_vars

(* The IPC watcher alone: the main channel and channel 2 are registered;   *)
(* files arrive in any directory with any content.                         *)
InitIpc ==
  /\ InitQueueState
  /\ InitStore
  /\ failuresLeft = MaxFailures
  /\ processMessagesFn = "processGroupMessages"
  /\ registeredGroups = [c \in Channels |->
        IF c = 1 THEN [folder |-> MAIN_GROUP_FOLDER, requiresTrigger |-> "true"]
        ELSE IF c = 2 THEN [folder |-> "g2", requiresTrigger |-> "true"]
        ELSE NoGroup]
  /\ phase = "running"

NextIpc ==
  \E sourceGroup \in IpcFolders, sub \in {"messages", "tasks"}, data \in IpcPayloads :
     IpcFileArrives(sourceGroup, sub, data)

SpecIpc == InitIpc /\ [][NextIpc]_vars

(* The agents' tools writing their files while the watcher polls. *)
NextIpcWrite ==
  \/ \E ctx \in IpcContexts : \E result \in ToolResults(ctx) : ToolCall(ctx, result)
  \/ \E file \in ipcFiles : WriteFill(file)
  \/ \E file \in ipcFiles : WriteRename(file)
  \/ \E file \in ipcFiles : WatcherPass(file)

SpecIpcWrite == InitIpc /\ [][NextIpcWrite]_vars

(* The queue serving one channel with several tasks, so that tasks and a   *)
(* message check are pending together.                                     *)
DrainTaskIds == 1..(NumTasks + 1)

NextDrain ==
  \/ EnqueueMessageCheckCall(1)
  \/ \E taskId \in DrainTaskIds : EnqueueTaskCall(1, taskId)
  \/ \E outcome \in {"true", "false", "throw"} : InjectedSettles(1, outcome)
  \/ TaskSettles(1)
  \/ RetryTimerFires(1)

SpecDrain == InitQueue /\ [][NextDrain]_vars

(* The queue with the subprocesses of its jobs, up to the exit of the host *)
(* after Shutdown.                                                         *)
ShutdownChannels == 1..2

NextShutdown ==
  \/ \E c \in ShutdownChannels : EnqueueMessageCheckCall(c)
  \/ \E c \in ShutdownChannels, containerName \in ContainerNames : Spawn(c, containerName)
  \/ \E c \in ShutdownChannels : ProcessExits(c)
  \/ \E c \in ShutdownChannels, outcome \in {"true", "false"} : JobSettles(c, outcome)
  \/ Shutdown
  \/ CheckInterval
  \/ GraceExpires

SpecShutdown == InitQueue /\ [][NextShutdown]_vars

(* One run of the agent process, with and without the API key. *)
InitAgent ==
  /\ InitQueueState
  /\ InitHostStore
  /\ failuresLeft = MaxFailures
  /\ processMessagesFn = "injected"
  /\ registeredGroups = [c \in Channels |-> NoGroup]
  /\ phase = "running"
  /\ agent = AgentInit
  /\ \E key \in {"undefined", "a"} :
       processEnv = [n \in EnvNames |-> IF n = "GEMINI_API_KEY" THEN key ELSE "a"]
  /\ children = {}

NextAgent ==
  \/ \E stdinData \in StdinKinds, saved \in {"ok", "throw"} : AgentStart(stdinData, saved)
  \/ \E response \in {"functionCalls", "text", "empty", "throw"},
        saved \in {"ok", "throw"} : ModelResponds(response, saved)
  \/ \E outcome \in {"ok", "throw"}, saved \in {"ok", "throw"} : ToolsReturn(outcome, saved)

SpecAgent == InitAgent /\ [][NextAgent]_vars

(* Every awaited call of the agent settles. *)
SpecAgentFair == SpecAgent /\ WF_vars(NextAgent)

(* The tools' child processes, for every environment of the container. *)
InitTools ==
  /\ InitQueueState
  /\ InitHostStore
  /\ failuresLeft = MaxFailures
  /\ processMessagesFn = "injected"
  /\ registeredGroups = [c \in Channels |-> NoGroup]
  /\ phase = "running"
  /\ agent = AgentInit
  /\ processEnv \in [EnvNames -> EnvValues]
  /\ children = {}

NextTools ==
  \/ BashCall
  \/ SearchFilesCall
  \/ WebFetchCall

SpecTools == InitTools /\ [][NextTools]_vars

(* downloadAttachments alone, for one message with any batch of one or two *)
(* attachments.                                                            *)
NextDownload ==
  \E attachments \in Batches(Attachments) : DownloadAttachments(1, attachments)

SpecDownload == InitQueue /\ [][NextDownload]_vars

(* collectImages over the files that two messages' attachments left on the *)
(* disk; a download may run while a scan is awaited.                       *)
NextCollect ==
  \/ \E messageId \in {1, 2}, attachments \in StoredBatches :
       DownloadAttachments(messageId, attachments)
  \/ \E markers \in SeqsUpTo(Markers, MaxMarkers),
        caps \in {<<8, 12>>, <<6, 9>>}, scanner \in BOOLEAN :
       CollectImages(markers, caps, scanner)
  \/ \E outcome \in {"safe", "unsafe", "throw"} : ScannerSettles(outcome)

SpecCollect == InitQueue /\ [][NextCollect]_vars

(* runAgent with the agent process it starts, run after run. *)
NextSession ==
  \/ \E folder \in SessionFolders, key \in {"undefined", "a"}, saved \in {"ok", "throw"} :
       RunAgent(folder, key, saved)
  \/ \E response \in {"functionCalls", "text", "empty", "throw"},
        saved \in {"ok", "throw"} : ModelResponds(response, saved)
  \/ \E outcome \in {"ok", "throw"}, saved \in {"ok", "throw"} : ToolsReturn(outcome, saved)
  \/ RunAgentReturns

SpecSession == InitQueue /\ [][NextSession]_vars

TypeOK ==
  /\ activeCount \in Int
  /\ \A c \in Channels : IsABag(timers[c])
  /\ \A c \in Channels : groups[c].retryCount \in 0..MAX_RETRIES
  /\ failuresLeft >= 0

(* ------------------------------ claims --------------------------------- *)
NonBot(m) == m.sender_name # ASSISTANT_NAME

(* C1: for every channel at most one job (message job or task job) is      *)
(* running at any instant, and runForGroup / runTask is never started for  *)
(* a channel whose active flag is already true.                            *)
C1_OneJobPerChannel ==
  /\ \A c \in Channels : Cardinality({j \in jobs : j.channelId = c}) <= 1
  /\ ~startedWhileActive

C1_Witness ==
  \E c \in Channels :
    /\ groups[c].active
    /\ groups[c].pendingMessages
    /\ Len(groups[c].pendingTasks) > 0

(* C2: activeCount never exceeds MAX_CONCURRENT_CONTAINERS, whichever path *)
(* starts a job.                                                           *)
C2_ActiveCountWithinCap == activeCount <= MAX_CONCURRENT_CONTAINERS

C2_Witness ==
  /\ activeCount = MAX_CONCURRENT_CONTAINERS
  /\ Len(waitingGroups) > 0
  /\ \E j \in jobs : j.kind = "task"
  /\ \E c \in Channels : timers[c] # EmptyBag

(* C3: activeCount equals the number of channels whose active flag is true *)
(* and is never negative.                                                  *)
C3_ActiveCountAccounts ==
  /\ activeCount = Cardinality({c \in Channels : groups[c].active})
  /\ activeCount >= 0

C3_Witness ==
  /\ activeCount = MAX_CONCURRENT_CONTAINERS
  /\ \E c \in Channels : ~groups[c].active /\ groups[c].retryCount > 0

(* C4: no channel id occurs more than once in waitingGroups.               *)
C4_WaitersDistinct ==
  \A i, j \in 1..Len(waitingGroups) :
    i # j => waitingGroups[i] # waitingGroups[j]

C4_Witness ==
  \E i \in 1..Len(waitingGroups) :
    /\ groups[waitingGroups[i]].pendingMessages
    /\ Len(groups[waitingGroups[i]].pendingTasks) > 0

(* C5: N >= 1 enqueueMessageCheck(c) calls made while c is active are      *)
(* served by exactly one processor invocation once the running job ends    *)
(* (after the channel's pending tasks, if any).  In every reachable state: *)
(* a call for an active channel only sets the flag, and a call after the   *)
(* first changes nothing at all; the handler that ends the channel's job   *)
(* invokes the processor exactly once and leaves the flag clear (or, with  *)
(* tasks pending, starts a task and keeps the flag); no handler invokes    *)
(* the processor twice, and a drain invokes it only when the flag is set.  *)
C5_FurtherCall(c) ==
  LET w == enqueueMessageCheck(World, c)
  IN (Idle /\ groups[c].active /\ ~shuttingDown) =>
       /\ w.invoked = ZeroPerChannel
       /\ w.groups[c].pendingMessages
       /\ w.jobs = jobs
       /\ w.activeCount = activeCount
       /\ w.waitingGroups = waitingGroups
       /\ groups[c].pendingMessages => w.groups = groups

C5_JobEnd(job, w) ==
  LET c == job.channelId
  IN /\ \A x \in Channels : w.invoked[x] <= 1
     /\ w.invoked[c] = 1 => groups[c].pendingMessages
     /\ (groups[c].pendingMessages /\ ~shuttingDown) =>
          IF Len(groups[c].pendingTasks) = 0
          THEN /\ w.invoked[c] = 1
               /\ ~w.groups[c].pendingMessages
               /\ \E j \in w.jobs : j.channelId = c /\ j.kind = "messages"
          ELSE /\ w.invoked[c] = 0
               /\ w.groups[c].pendingMessages
               /\ \E j \in w.jobs : j.channelId = c /\ j.kind = "task"

C5_CoalescedIntoOneInvocation ==
  /\ \A c \in Channels : C5_FurtherCall(c)
  /\ \A job \in jobs :
       /\ (Idle /\ job.phase = "injected") =>
            \A outcome \in {"true", "false", "throw"} :
              C5_JobEnd(job, runForGroupSettle(World, job, outcome))
       /\ (Idle /\ job.phase = "task") =>
            C5_JobEnd(job, runTaskSettle(World, job))

C5_Witness ==
  \E job \in jobs :
    LET c == job.channelId
    IN /\ Idle /\ job.phase = "injected" /\ ~shuttingDown
       /\ groups[c].pendingMessages
       /\ Len(groups[c].pendingTasks) = 0
       /\ Len(waitingGroups) > 0
       /\ enqueueMessageCheck(World, c).groups = groups
       /\ runForGroupSettle(World, job, "true").invoked[c] = 1

(* C6: last_agent_timestamp[c], in memory and as persisted, never          *)
(* decreases.                                                              *)
C6_AgentWatermarkMonotonic ==
  [][\A c \in Channels :
       /\ lastAgentTimestamp'[c] >= lastAgentTimestamp[c]
       /\ router_state'.last_agent_timestamp[c] >= router_state.last_agent_timestamp[c]]_vars

C6_Witness ==
  \E c \in Channels : lastAgentTimestamp[c] >= 1 /\ timers[c] # EmptyBag

(* C7: every stored non-bot message at or below its channel's              *)
(* last_agent_timestamp was in the prompt of exactly one successful turn.  *)
C7_EachMessageInExactlyOneTurn ==
  \A m \in messages :
    (NonBot(m) /\ m.timestamp <= lastAgentTimestamp[m.channel_id])
      => included[m.timestamp] = 1

(* C8: when the runner fails, the processor reports failure to the queue   *)
(* (scheduleRetry runs), last_agent_timestamp is left unchanged, and the   *)
(* batch of the next run contains every message of the failed batch.       *)
C8_FailureStep(job) ==
  LET c == job.channelId
      w == processGroupMessagesResume(World, job, "error")
  IN /\ w.ended = <<[channelId |-> c, how |-> "failure"]>>
     /\ w.lastAgentTimestamp = lastAgentTimestamp
     /\ w.router_state = router_state
     /\ \/ /\ w.groups[c].retryCount = groups[c].retryCount + 1
           /\ BagCardinality(w.timers[c]) = BagCardinality(timers[c]) + 1
        \/ /\ groups[c].retryCount = MAX_RETRIES
           /\ w.groups[c].retryCount = 0
           /\ w.timers[c] = timers[c]

C8_RetryBatch ==
  \A j \in jobs :
    (j.kind = "messages" /\ lastFailed[j.channelId] # <<>>) =>
       /\ j.phase = "agent"
       /\ SeqToSet(lastFailed[j.channelId]) \subseteq SeqToSet(j.batch)

C8_FailureKeepsWatermark ==
  /\ C8_RetryBatch
  /\ \A job \in jobs : (Idle /\ job.phase = "agent") => C8_FailureStep(job)

C8_Witness ==
  \E j \in jobs :
    /\ lastFailed[j.channelId] # <<>>
    /\ Len(j.batch) > Len(lastFailed[j.channelId])
    /\ Idle /\ j.phase = "agent"

(* C9: in a poll tick that finds new messages last_timestamp is the        *)
(* maximum timestamp of the batch and is persisted before the tick's first *)
(* enqueueMessageCheck; last_timestamp never decreases.                    *)
C9_BeforeDispatch ==
  pollPc = "dispatch" =>
    /\ lastTimestamp = MaxOf({m.timestamp : m \in pollMessages})
    /\ router_state.last_timestamp = lastTimestamp

C9_TickOrder ==
  /\ Idle =>
       LET r == pollRead(World)
       IN r.found # {} =>
            /\ r.w.lastTimestamp = MaxOf({m.timestamp : m \in r.found})
            /\ r.w.router_state.last_timestamp = r.w.lastTimestamp
            /\ r.w.enqCalls = {}
  /\ (phase = "running" /\ pollPc = "dispatch") =>
       pollDispatch(World, pollMessages).enqCalls =
          {<<m.channel_id, "poll">> : m \in pollMessages}

C9_CursorStep ==
  /\ lastTimestamp' >= lastTimestamp
  /\ router_state'.last_timestamp >= router_state.last_timestamp

C9_CursorAdvancedBeforeEnqueue ==
  /\ [](C9_BeforeDispatch /\ C9_TickOrder)
  /\ [][C9_CursorStep]_vars

C9_Witness ==
  /\ pollPc = "dispatch"
  /\ Cardinality({m.timestamp : m \in pollMessages}) >= 2
  /\ router_state.last_timestamp = MaxTs

(* C10: at boot, before the first poll tick, enqueueMessageCheck is called *)
(* for every registered channel that has a non-bot message newer than the  *)
(* persisted last_agent_timestamp[c], wherever last_timestamp stands.      *)
C10_Pending(c) ==
  /\ registeredGroups[c] # NoGroup
  /\ \E m \in messages : /\ m.channel_id = c
                         /\ NonBot(m)
                         /\ m.timestamp > router_state.last_agent_timestamp[c]

C10_RecoveryEnqueues ==
  phase = "booting" =>
    LET run == ClientReadyRun(World)
    IN /\ run.r.w.enqCalls = run.recovered.enqCalls
       /\ \A c \in Channels :
            C10_Pending(c) =>
              /\ <<c, "recover">> \in run.recovered.enqCalls
              /\ \/ \E j \in run.recovered.jobs :
                      j.channelId = c /\ j.kind = "messages"
                 \/ run.recovered.groups[c].pendingMessages

C10_Witness ==
  /\ phase = "booting"
  /\ \A m \in messages : m.timestamp <= router_state.last_timestamp
  /\ \E c \in Channels :
       /\ C10_Pending(c)
       /\ \E j \in ClientReadyRun(World).recovered.jobs :
            j.channelId = c /\ j.phase = "agent"

(* C11: for a non-empty batch processGroupMessages invokes the agent if    *)
(* and only if the channel is the main channel, or requiresTrigger is      *)
(* false, or a message of the batch has mentions_bot set or matches the    *)
(* trigger pattern; otherwise it reports success without invoking the      *)
(* agent.  The main channel bypasses the check.                            *)
C11_Batch(c) ==
  {m \in messages : /\ m.channel_id = c
                    /\ NonBot(m)
                    /\ m.timestamp > lastAgentTimestamp[c]}

C11_MayInvoke(c, rows) ==
  \/ registeredGroups[c].folder = MAIN_GROUP_FOLDER
  \/ registeredGroups[c].requiresTrigger = "false"
  \/ \E m \in rows : m.mentions_bot \/ TRIGGER_PATTERN_test(m.content)

C11_TriggerGate ==
  /\ \A c \in Channels :
       (Idle /\ registeredGroups[c] # NoGroup /\ ~groups[c].active /\ C11_Batch(c) # {}) =>
          LET w == enqueueMessageCheck(World, c)
          IN IF C11_MayInvoke(c, C11_Batch(c))
             THEN \E j \in w.jobs :
                    /\ j.channelId = c /\ j.phase = "agent"
                    /\ SeqToSet(j.batch) = {m.timestamp : m \in C11_Batch(c)}
             ELSE \E j \in w.jobs :
                    /\ j.channelId = c /\ j.phase = "returned"
                    /\ runForGroupSettle(w, j, "true").ended =
                         <<[channelId |-> c, how |-> "success"]>>
  /\ \A j \in jobs :
       j.phase = "agent" =>
         C11_MayInvoke(j.channelId,
                       {m \in messages : /\ m.channel_id = j.channelId
                                         /\ m.timestamp \in SeqToSet(j.batch)})

C11_Witness ==
  \E j \in jobs :
    /\ j.phase = "returned"
    /\ C11_Batch(j.channelId) # {}
    /\ registeredGroups[j.channelId].requiresTrigger = "undefined"

(* C12: the k-th consecutive failed message job of a channel, k = 1..5,    *)
(* schedules one enqueueMessageCheck for that channel after                *)
(* 5000 * 2^(k-1) ms: 5 s, 10 s, 20 s, 40 s, 80 s.                         *)
C12_Delays == <<5000, 10000, 20000, 40000, 80000>>

C12_BackoffDelays ==
  /\ \A job \in jobs :
       (Idle /\ job.phase = "injected") =>
         \A outcome \in {"false", "throw"} :
           LET c == job.channelId
               k == failedInARow[c] + 1
               w == runForGroupSettle(World, job, outcome)
           IN k \in 1..5 =>
                /\ w.failedInARow[c] = k
                /\ w.timers[c] = timers[c] (+) SetToBag({C12_Delays[k]})
  /\ \A c \in Channels : \A delayMs \in BagToSet(timers[c]) :
       (Idle /\ ~shuttingDown) =>
         LET w == retryTimer(World, c, delayMs)
         IN /\ BagCardinality(w.timers[c]) = BagCardinality(timers[c]) - 1
            /\ IF groups[c].active
               THEN w.groups[c].pendingMessages /\ w.invoked[c] = 0
               ELSE w.invoked[c] = 1

C12_Witness ==
  \E c \in Channels :
    /\ BagToSet(timers[c]) = {5000, 10000, 20000, 40000, 80000}
    /\ failedInARow[c] = 5

(* C13 as claimed: after the fifth failure in a row retryCount is reset to *)
(* 0 and no further retry is scheduled.                                    *)
C13_DropAfterFifthFailure ==
  \A job \in jobs :
    (Idle /\ job.phase = "injected" /\ failedInARow[job.channelId] = 4) =>
      \A outcome \in {"false", "throw"} :
        LET c == job.channelId
            w == runForGroupSettle(World, job, outcome)
        IN /\ w.groups[c].retryCount = 0
           /\ w.timers[c] = timers[c]

(* C13 as amended: the fifth failure in a row still schedules a retry (the *)
(* fifth, after 80 s); after the sixth failure in a row retryCount is      *)
(* reset to 0 and no further retry is scheduled.                           *)
C13_DropAfterSixthFailure ==
  \A job \in jobs :
    (Idle /\ job.phase = "injected") =>
      \A outcome \in {"false", "throw"} :
        LET c == job.channelId
            w == runForGroupSettle(World, job, outcome)
        IN /\ failedInARow[c] = 4 =>
                /\ w.groups[c].retryCount = 5
                /\ BagCardinality(w.timers[c]) = BagCardinality(timers[c]) + 1
           /\ failedInARow[c] = 5 =>
                /\ w.groups[c].retryCount = 0
                /\ w.timers[c] = timers[c]

C13_Witness ==
  \E c \in Channels :
    /\ failedInARow[c] = 6
    /\ groups[c].retryCount = 0
    /\ ~groups[c].active
    /\ timers[c] = EmptyBag

(* C14: once shutdown has been called no new job is started:               *)
(* enqueueMessageCheck and enqueueTask are dropped, a retry timer that     *)
(* fires afterwards does not enqueue, and a job that finishes afterwards   *)
(* drains neither its own pending work nor the waiters.                    *)
C14_QueueState(w) == <<w.groups, w.activeCount, w.waitingGroups, w.jobs>>

C14_Dropped ==
  (Idle /\ shuttingDown) =>
    /\ \A c \in Channels :
         C14_QueueState(enqueueMessageCheck(World, c)) = C14_QueueState(World)
    /\ \A c \in Channels, taskId \in TaskIds :
         C14_QueueState(enqueueTask(World, c, taskId)) = C14_QueueState(World)
    /\ \A c \in Channels : \A delayMs \in BagToSet(timers[c]) :
         C14_QueueState(retryTimer(World, c, delayMs)) = C14_QueueState(World)
    /\ \A job \in jobs : \A outcome \in {"true", "false", "throw"} :
         LET c == job.channelId
             w == IF job.kind = "task" THEN runTaskSettle(World, job)
                  ELSE runForGroupSettle(World, job, outcome)
         IN /\ w.jobs = jobs \ {job}
            /\ w.activeCount = activeCount - 1
            /\ w.waitingGroups = waitingGroups
            /\ w.invoked = ZeroPerChannel
            /\ w.groups[c].pendingMessages = groups[c].pendingMessages
            /\ w.groups[c].pendingTasks = groups[c].pendingTasks

C14_NoStartAfterShutdown ==
  /\ []C14_Dropped
  /\ [][shuttingDown => (shuttingDown' /\ jobs' \subseteq jobs)]_vars

C14_Witness ==
  /\ shuttingDown
  /\ jobs = {}
  /\ Len(waitingGroups) > 0
  /\ \E c \in Channels : groups[c].pendingMessages
  /\ \E c \in Channels : Len(groups[c].pendingTasks) > 0
  /\ \E c \in Channels : timers[c] # EmptyBag

(* ------------------------------------------------------------------ C15 *)
(* The world after the watcher handled a file found in a directory. *)
C15_After(sourceGroup, sub, data) ==
  processIpcFile(WithFile(World, Arrived(World, sourceGroup, sub, data)),
                 Arrived(World, sourceGroup, sub, data))

C15_NonMain == IpcFolders \ {MAIN_GROUP_FOLDER}

(* C15: no task file found in a non-main group's directory changes state   *)
(* outside that group: every task of another folder is left as it was, a   *)
(* task it changes or creates belongs to the source folder, a task it      *)
(* creates targets a channel registered to the source folder, and          *)
(* registrations and snapshots are unchanged.                              *)
C15_StaysInsideItsGroup ==
  \A sourceGroup \in C15_NonMain, data \in IpcPayloads :
    LET after == C15_After(sourceGroup, "tasks", data)
    IN /\ \A t \in tasks : t.group_folder # sourceGroup => t \in after.tasks
       /\ \A t \in after.tasks \ tasks :
             /\ t.group_folder = sourceGroup
             /\ (\A old \in tasks : old.id # t.id)
                  => registeredGroups[t.channel_id].folder = sourceGroup
       /\ after.registeredGroups = registeredGroups
       /\ after.snapshots = snapshots

(* A task of the main folder is stored, and g2's files against it and for  *)
(* the main channel are handled without effect.                            *)
C15_Witness ==
  \E t \in tasks :
    /\ t.group_folder = MAIN_GROUP_FOLDER
    /\ C15_After("g2", "tasks",
                 [NoData EXCEPT !.type = "cancel_task", !.taskId = t.id]).tasks = tasks
    /\ C15_After("g2", "tasks",
                 [NoData EXCEPT !.type = "schedule_task", !.prompt = "p",
                                !.schedule_type = "interval",
                                !.schedule_value = <<"6", "0">>,
                                !.targetChannelId = 1]).tasks = tasks
    /\ \E own \in tasks : own.group_folder = "g2"

(* ------------------------------------------------------------------ C16 *)
C16_Message(c) == [NoData EXCEPT !.type = "message", !.channelId = c, !.text = "hi"]

C16_Delivered(sourceGroup, c) ==
  C15_After(sourceGroup, "messages", C16_Message(c)).sent
     = Append(sent, <<c, ASSISTANT_NAME, "hi">>)

C16_Untouched(sourceGroup, c) ==
  C15_After(sourceGroup, "messages", C16_Message(c)).sent = sent

(* C16: a message file from a non-main folder is delivered only if its     *)
(* target channel is registered with that folder (and is otherwise         *)
(* dropped); a file from the main folder is delivered to any channel.      *)
C16_MessageAuthorization ==
  \A sourceGroup \in IpcFolders, c \in Channels :
    /\ sourceGroup = MAIN_GROUP_FOLDER => C16_Delivered(sourceGroup, c)
    /\ sourceGroup # MAIN_GROUP_FOLDER =>
         IF registeredGroups[c] # NoGroup /\ registeredGroups[c].folder = sourceGroup
         THEN C16_Delivered(sourceGroup, c)
         ELSE C16_Untouched(sourceGroup, c)

(* Messages were delivered; g2 reaches its own channel and not the main. *)
C16_Witness ==
  /\ Len(sent) > 0
  /\ C16_Delivered("g2", 2)
  /\ C16_Untouched("g2", 1)
  /\ C16_Delivered(MAIN_GROUP_FOLDER, 2)

(* ------------------------------------------------------------------ C17 *)
C17_Identities ==
  [groupFolder : {"", MAIN_GROUP_FOLDER}, isMain : BOOLEAN,
   createdBy : {"", MAIN_GROUP_FOLDER}]

C17_Claiming(data, id) ==
  [data EXCEPT !.groupFolder = id.groupFolder, !.isMain = id.isMain,
               !.createdBy = id.createdBy]

C17_Effect(w) == <<w.tasks, w.registeredGroups, w.sent, w.snapshots>>

(* C17: two files found in the same directory that differ only in the      *)
(* identity their payload claims (groupFolder, isMain, createdBy) have the *)
(* same effect on tasks, registrations and outbound chat.                  *)
C17_PayloadIdentityIgnored ==
  \A sourceGroup \in IpcFolders, sub \in {"messages", "tasks"},
     data \in IpcPayloads \ {Malformed}, id \in C17_Identities :
    C17_Effect(C15_After(sourceGroup, sub, C17_Claiming(data, id)))
       = C17_Effect(C15_After(sourceGroup, sub, data))

(* A task of the main folder is stored and g2's cancel_task claiming to be *)
(* the main group leaves it, while the same file in main's directory       *)
(* removes it.                                                             *)
C17_Witness ==
  \E t \in tasks :
    LET data == [NoData EXCEPT !.type = "cancel_task", !.taskId = t.id,
                               !.groupFolder = MAIN_GROUP_FOLDER, !.isMain = TRUE]
    IN /\ t.group_folder = MAIN_GROUP_FOLDER
       /\ t \in C15_After("g2", "tasks", data).tasks
       /\ t \notin C15_After(MAIN_GROUP_FOLDER, "tasks", data).tasks

(* ------------------------------------------------------------------ C18 *)
(* C18: a task file whose action authorization refuses is moved to         *)
(* ipc/errors/{sourceGroup}-{filename}, and the targeted task is unchanged.*)
C18_RefusedFileQuarantined ==
  \A sourceGroup \in C15_NonMain, t \in tasks,
     action \in {"pause_task", "resume_task", "cancel_task"} :
    t.group_folder # sourceGroup =>
      LET data == [NoData EXCEPT !.type = action, !.taskId = t.id]
          file == Arrived(World, sourceGroup, "tasks", data)
          after == C15_After(sourceGroup, "tasks", data)
      IN /\ t \in after.tasks
         /\ <<file.dir, file.name>> \in after.ipcErrors

(* ------------------------------------------------------------------ C19 *)
(* C19: the watcher never reads a partially written file: every file it    *)
(* lists (a name ending in .json) holds its full content, so no file an    *)
(* agent's tool wrote ends in ipc/errors, whatever the interleaving of     *)
(* writes and watcher passes.                                              *)
C19_NoPartialRead ==
  /\ \A file \in messageFiles(World) \cup taskFiles(World) : file.complete
  /\ \A file \in ipcFiles : ~file.complete => file.ext = <<".json", ".tmp">>
  /\ ipcErrors = {}

(* A file is half written while the watcher has another file to handle. *)
C19_Witness ==
  /\ \E file \in ipcFiles : ~file.complete
  /\ messageFiles(World) \cup taskFiles(World) # {}

(* ------------------------------------------------------------------ C20 *)
C20_IsNumeric(str) ==
  LET body == IF str # <<>> /\ str[1] \in {"-", "+"} THEN Tail(str) ELSE str
  IN body # <<>> /\ \A i \in 1..Len(body) : IsDigit(body[i])

C20_Invalid(scheduleType, scheduleValue) ==
  \/ scheduleType = "cron" /\ CronExpressionParser_parse_throws(scheduleValue)
  \/ scheduleType = "interval"
       /\ (~C20_IsNumeric(scheduleValue) \/ parseInt(scheduleValue).value <= 0)
  \/ scheduleType = "once" /\ Date_isNaN(scheduleValue)

(* C20: a schedule_task request with an invalid cron expression, a         *)
(* non-numeric or non-positive interval or an unparseable once timestamp   *)
(* creates no task; the agent's tool returns the reason and writes no file.*)
C20_InvalidScheduleRejected ==
  /\ \A t \in tasks : ~C20_Invalid(t.schedule_type, t.schedule_value)
  /\ \A ctx \in IpcContexts, sv \in IpcSchedules :
       C20_Invalid(sv[1], sv[2]) =>
         LET result == ipc_scheduleTask(ctx, "p", sv[1], sv[2], 0)
         IN /\ result.data = NoData
            /\ result.reply \in {"Invalid cron", "Invalid interval", "Invalid timestamp"}

(* ------------------------------------------------------------------ C24 *)
(* C24: the pending task list of a channel never holds one taskId twice. *)
C24_PendingTasksDistinct ==
  \A c \in Channels :
    \A i, j \in 1..Len(groups[c].pendingTasks) :
      i # j => groups[c].pendingTasks[i] # groups[c].pendingTasks[j]

(* A task is pending and EnqueueTask is called for it again. *)
C24_Witness ==
  \E taskId \in TaskIds :
    /\ ~shuttingDown
    /\ Includes(groups[TaskChannel(taskId)].pendingTasks, taskId)
    /\ enqueueTask(World, TaskChannel(taskId), taskId) = World

(* ------------------------------------------------------------------ C29 *)
C29_KnownTypes ==
  {"schedule_task", "pause_task", "resume_task", "cancel_task",
   "refresh_groups", "register_channel"}

(* C29: a task file whose type is none of the six known types is moved to  *)
(* ipc/errors instead of being deleted.                                    *)
C29_UnknownTypeQuarantined ==
  \A sourceGroup \in IpcFolders, data \in IpcPayloads \ {Malformed} :
    data.type \notin C29_KnownTypes =>
      LET file == Arrived(World, sourceGroup, "tasks", data)
      IN <<file.dir, file.name>> \in C15_After(sourceGroup, "tasks", data).ipcErrors

(* ------------------------------------------------------------------ C30 *)
(* C30: every task created through schedule_task has a schedule kind in    *)
(* {cron, interval, once} and a next_run that is not null.                 *)
C30_CreatedTasksWellFormed ==
  \A t \in tasks :
    /\ t.schedule_type \in {"cron", "interval", "once"}
    /\ t.next_run # "null"

(* ------------------------------------------------------------------ C25 *)
(* The end of a job of channel c, however it ends. *)
C25_Ends(job) ==
  IF job.kind = "task" THEN {runTaskSettle(World, job)}
  ELSE {runForGroupSettle(World, job, outcome) : outcome \in {"true", "false", "throw"}}

(* C25: when a job of channel c finishes while c has pending tasks and     *)
(* pendingMessages set, the first pending task is started, the rest stay   *)
(* pending in their order, no message check runs and pendingMessages stays *)
(* set; the message check runs at the end of the job that finds no pending *)
(* task.                                                                   *)
C25_TasksBeforeMessages ==
  \A job \in jobs : \A w \in C25_Ends(job) :
    LET c == job.channelId
        state == groups[c]
    IN (Idle /\ ~shuttingDown /\ state.pendingMessages) =>
         IF Len(state.pendingTasks) > 0
         THEN /\ w.invoked[c] = 0
              /\ w.groups[c].pendingMessages
              /\ w.groups[c].pendingTasks = Tail(state.pendingTasks)
              /\ \E j \in w.jobs \ (jobs \ {job}) :
                    /\ j.channelId = c /\ j.kind = "task"
                    /\ j.taskId = Head(state.pendingTasks)
                    /\ w.jobs \ (jobs \ {job}) = {j}
         ELSE /\ w.invoked[c] = 1
              /\ ~w.groups[c].pendingMessages
              /\ \E j \in w.jobs \ (jobs \ {job}) :
                    /\ j.channelId = c /\ j.kind = "messages"
                    /\ w.jobs \ (jobs \ {job}) = {j}

(* A job is running while two tasks and a message check are pending. *)
C25_Witness ==
  /\ Idle /\ ~shuttingDown
  /\ \E job \in jobs :
       /\ groups[job.channelId].pendingMessages
       /\ Len(groups[job.channelId].pendingTasks) >= 2
       /\ \A w \in C25_Ends(job) :
            /\ w.groups[job.channelId].pendingMessages
            /\ Len(w.groups[job.channelId].pendingTasks) >= 1

(* ------------------------------------------------------------------ C26 *)
C26_HasPendingWork(c) ==
  groups[c].pendingMessages \/ Len(groups[c].pendingTasks) > 0

(* The number of waiters a finishing job can start. *)
C26_Free == Min2(MAX_CONCURRENT_CONTAINERS - (activeCount - 1), Len(waitingGroups))

C27_ActiveChannelsTargeted ==
  \A c \in Channels :
    (shuttingDown /\ procs[c].live = "running") =>
      procs[c].signals \cap {"container stop", "SIGTERM"} # {}

(* ------------------------------------------------------------------ C28 *)
(* C28: a targeted subprocess that has not exited when the grace period    *)
(* expires is sent SIGKILL, and Shutdown does not return before all        *)
(* targeted subprocesses have exited or the grace period has expired.      *)
C28_KillAfterGrace ==
  /\ shutdownPc \in {"returned", "resolved"} =>
       \A c \in activeProcs : procs[c].live = "exited"
  /\ shutdownPc = "expired" =>
       \A c \in activeProcs :
         procs[c].live = "running" => "SIGKILL" \in procs[c].signals

(* ------------------------------ C21 .. C23 ----------------------------- *)
(* The framed ContainerOutput blocks on the agent's stdout. *)
C22_Blocks(stdout) ==
  Cardinality({i \in 1..(Len(stdout) - 2) :
                 /\ stdout[i] = <<OUTPUT_START_MARKER>>
                 /\ Len(stdout[i + 1]) = 3
                 /\ stdout[i + 2] = <<OUTPUT_END_MARKER>>})

(* C21: for one input the loop calls the model at most MAX_TURNS times, *)
(* and once in the loop the process terminates with one output, whatever *)
(* the responses are (function calls every time included).               *)
C21_BoundedTurns ==
  /\ [](agent.llmCalls <= MAX_TURNS)
  /\ (agent.pc = "generateContent") ~>
       (agent.pc = "exited" /\ C22_Blocks(agent.stdout) = 1)

C21_Witness ==
  /\ agent.pc = "exited"
  /\ agent.llmCalls = MAX_TURNS
  /\ agent.result = "null"
  /\ agent.exitCode = 0
  /\ C22_Blocks(agent.stdout) = 1

(* C22: every execution of the agent process ends with exactly one framed *)
(* ContainerOutput block on stdout.                                         *)
C22_ExactlyOneBlock ==
  agent.pc = "exited" => C22_Blocks(agent.stdout) = 1

(* C23: no child of bash, search_files or web_fetch holds GEMINI_API_KEY or *)
(* GEMINI_MODEL, and the children's environment is the same for any two     *)
(* values of the two secrets.                                               *)
C23_SameButSecrets(other) ==
  \A n \in EnvNames \ SECRETS : other[n] = processEnv[n]

C23_ChildrenGetNoSecrets ==
  /\ \A child \in children : \A kv \in child.env : kv[1] \notin SECRETS
  /\ \A other \in [EnvNames -> EnvValues] :
       C23_SameButSecrets(other) =>
         /\ bash(children, other) = bash(children, processEnv)
         /\ searchFiles(children, other) = searchFiles(children, processEnv)
         /\ webFetch(children, other) = webFetch(children, processEnv)
         /\ \A child \in children : child.env = safeEnv(other)

C23_Witness ==
  /\ \A n \in EnvNames : processEnv[n] # "undefined"
  /\ {child.command : child \in children} = {"bash", "grep", "curl"}
  /\ \A child \in children : child.env = {<<"PATH", processEnv["PATH"]>>}

(* ------------------------------ C31 .. C40 ----------------------------- *)
(* C31: a message is stored only with a timestamp at or above those of its *)
(* channel's stored messages, and above both watermarks (last_timestamp,   *)
(* last_agent_timestamp of its channel) as they are when it is stored.     *)
C31_StoredInTimestampOrder ==
  [][\A m \in messages' \ messages :
       /\ \A old \in messages :
            old.channel_id = m.channel_id => old.timestamp <= m.timestamp
       /\ m.timestamp > lastTimestamp
       /\ m.timestamp > lastAgentTimestamp[m.channel_id]]_vars

(* C32: while Shutdown is not called and every job completes, a channel    *)
(* with enqueued work (pendingMessages, a pending task, or a place in the  *)
(* waiters list) is eventually run.                                        *)
C32_Enqueued(c) ==
  \/ groups[c].pendingMessages
  \/ Len(groups[c].pendingTasks) > 0
  \/ Includes(waitingGroups, c)

C32_EnqueuedChannelRuns ==
  \A c \in Channels : C32_Enqueued(c) ~> groups[c].active

(* C33: no two registered channels share the same folder slug. *)
C33_FoldersUnique ==
  \A a, b \in Channels :
    (a # b /\ registeredGroups[a] # NoGroup /\ registeredGroups[b] # NoGroup)
      => registeredGroups[a].folder # registeredGroups[b].folder

(* C34: a successful turn sends outbound chat exactly when its result has  *)
(* outputType message with a non-empty userMessage; a log or null result   *)
(* sends nothing; in both cases last_agent_timestamp[c], in memory and as  *)
(* persisted, becomes the last timestamp of the batch.                     *)
C34_Sending(w, c) == {j \in w.jobs : j.channelId = c /\ j.phase = "sending"}

C34_OnlyMessageSends ==
  \A job \in jobs : job.phase = "agent" =>
    \A response \in Responses \ {"error"} :
      LET c == job.channelId
          w == processGroupMessagesResume(World, job, response)
      IN /\ (C34_Sending(w, c) # {}) <=> (response = "message")
         /\ w.lastAgentTimestamp[c] = job.batch[Len(job.batch)]
         /\ w.router_state.last_agent_timestamp[c] = job.batch[Len(job.batch)]

C34_Witness ==
  /\ \E job \in jobs : job.phase = "sending"
                        /\ lastAgentTimestamp[job.channelId] = job.batch[Len(job.batch)]
  /\ \E c \in Channels :
       /\ lastAgentTimestamp[c] > 0
       /\ \A job \in jobs : job.channelId # c

(* C35: collectImages returns only images of an allowed type whose file    *)
(* exists on disk, each of size at most maxPerImage, and the sizes of the  *)
(* returned images sum to at most maxTotal.                                *)
RECURSIVE C35_TotalSize(_)
C35_TotalSize(images) ==
  IF images = <<>> THEN 0
  ELSE Len(Head(images).data) + C35_TotalSize(Tail(images))

C35_FromMarker(image) ==
  \E i \in 1..Len(attach.input) :
    /\ attach.input[i].name = image.name
    /\ attach.input[i].mimeType = image.mimeType
    /\ attach.disk[attach.input[i].relativePath] # NoFile

C35_ImagesWithinCaps ==
  /\ \A i \in 1..Len(attach.images) :
       /\ attach.images[i].mimeType \in IMAGE_TYPES
       /\ Len(attach.images[i].data) <= attach.maxPerImage
       /\ C35_FromMarker(attach.images[i])
  /\ C35_TotalSize(attach.images) <= attach.maxTotal

(* Two markers that each pass on their own; the second is left out because *)
(* of the total.                                                           *)
C35_Witness ==
  /\ attach.pc = "returned"
  /\ ~attach.scanner
  /\ Len(attach.input) = 2
  /\ Len(attach.images) = 1
  /\ \A i \in 1..2 :
       /\ attach.input[i].mimeType \in IMAGE_TYPES
       /\ attach.disk[attach.input[i].relativePath] # NoFile
       /\ Len(attach.disk[attach.input[i].relativePath]) <= attach.maxPerImage

(* C36: downloadAttachments neither writes nor returns an attachment whose *)
(* contentType is a supported image type and whose leading bytes do not    *)
(* match that type's signature; every other attachment of the batch,       *)
(* non-images unchecked, is written and returned.                          *)
C36_Signature(contentType, buffer) ==
  \/ contentType = "image/png" /\ Len(buffer) >= 8 /\ Prefix(buffer, 8) = PngSignature
  \/ contentType = "image/jpeg" /\ Len(buffer) >= 3 /\ Prefix(buffer, 3) = JpegSignature
  \/ contentType = "image/gif" /\ Len(buffer) >= 6 /\ Prefix(buffer, 6) \in {Gif87a, Gif89a}
  \/ contentType = "image/webp" /\ Len(buffer) >= 12 /\ Prefix(buffer, 4) = Riff
       /\ SubSeq(buffer, 9, 12) = Webp

C36_Spoofed(att) ==
  att.contentType \in IMAGE_TYPES /\ ~C36_Signature(att.contentType, att.buffer)

C36_Kept == SelectSeq(attach.request, LAMBDA att : ~C36_Spoofed(att))

C37_NoStrandedWork ==
  ~shuttingDown =>
    \A c \in Channels :
      (groups[c].pendingMessages \/ Len(groups[c].pendingTasks) > 0)
        => (groups[c].active \/ Includes(waitingGroups, c))

C37_Witness ==
  /\ ~shuttingDown
  /\ \E c \in Channels :
       /\ groups[c].pendingMessages /\ ~groups[c].active
       /\ Includes(waitingGroups, c)
  /\ \E c \in Channels :
       /\ Len(groups[c].pendingTasks) > 0 /\ groups[c].active

(* C38 as stated: a run whose output has status error leaves               *)
(* sessions[folder] and the persisted session row unchanged.               *)
C38_Settles == sessions.run # NoRun /\ sessions'.run = NoRun

C39_RunsAgain(w, job) ==
  \E j \in runTaskSettle(w, job).jobs \ (w.jobs \ {job}) :
    j.channelId = job.channelId /\ j.kind = "task" /\ j.taskId = job.taskId

C39_RunningTaskNotRunTwice ==
  \A job \in jobs : job.kind = "task" =>
    (C39_RunsAgain(enqueueTask(World, job.channelId, job.taskId), job)
       => C39_RunsAgain(World, job))

(* C40: when a message job of channel c fails, the processor is not        *)
(* invoked again for c in the failing job's own completion, that is,       *)
(* before the retry timer it has just set can fire; an EnqueueMessageCheck *)
(* during the job makes no difference.                                     *)
C40_NoRunBeforeBackoff ==
  \A job \in jobs : (job.kind = "messages" /\ job.phase = "injected") =>
    \A outcome \in {"false", "throw"} :
      runForGroupSettle(World, job, outcome).invoked[job.channelId] = 0

====
